---- MODULE Spec2Model ----
(***************************************************************************)
(* The primary oplog of golem-worker-executor-base                         *)
(* (services/oplog/primary.rs): PrimaryOplogService (create, open, delete, *)
(* read, get_last_index) and PrimaryOplog / PrimaryOplogState (add,        *)
(* commit, append, read, length, drop_prefix, wait_for_replicas), for one  *)
(* WorkerId, driven by concurrent tasks.  Every await on the indexed       *)
(* storage is one step; the handle's async Mutex is held from the lock()   *)
(* of an operation to its return or panic.                                 *)
(***************************************************************************)
EXTENDS Integers, Sequences, FiniteSets, TLC

\* ---------------------------------------------------------------- bounds
MaxIdx == 3
MaxThreshold == 1
MaxHandles == 2
MaxData == 2
MaxPayloadSize == 1
MaxBlobs == 2
MaxChannels == 2
MaxWaiters == 2
MaxFuel == 2
MaxConstructions == 2
MaxJournal == 3
MaxInstant == 3
MaxPollables == 2
MaxCount == 2
MaxPathLen == 3
MaxScanCount == 2
MaxResponses == 2
MaxNews == 2
MaxRequests == 3
MaxDepth == 3

Tasks == {"t1", "t2"}
OplogEntries == {"a", "b"}
HandleIds == 1..MaxHandles
NoTask == "none"
Absent == "-"
NoHandle == 0
Replicas == 2

VARIABLES
    stream,                        \* the worker's stream in IndexedStorage (namespace OpLog)
    oplogs,                        \* OpenOplogs: the registry slot of the worker
    handles,                       \* the PrimaryOplog instances (PrimaryOplogState + Mutex)
    held,                          \* the Arc<dyn Oplog> each task holds
    max_operations_before_commit,  \* configuration of the service
    pc,                            \* where each task is inside its current call
    entries,                       \* commit's local Vec (drained buffer), per task
    pos,                           \* number of entries of that Vec already appended
    arg,                           \* the call's argument or intermediate value
    res,                           \* outcome of the call that finished last
    blobs,                         \* BlobStorage, namespace OplogPayload{account, worker}
    max_payload_size,              \* configuration of the service
    payload_call,                  \* the upload_payload / download_payload call in progress
    payload_res,                   \* the payload call that finished last, with its outcome
    execution_status,              \* Worker.execution_status (behind its RwLock)
    receivers,                     \* the broadcast Receivers handed out by set_interrupting
    interrupt_ret,                 \* what the last set_interrupting returned
    store,                         \* the worker's wasmtime Store: fuel, guest, last callback result
    active_workers,                \* the active-worker cache: the slot of the worker_id
    builds,                        \* the constructions started for the worker_id, in order
    callers,                       \* the get_or_create / get_or_create_pending calls
    worker_service,                \* metadata persisted by worker_service().add
    golem_ctx,                     \* GolemCtx: mode, the worker's journal of host calls, the host clock
    guest,                         \* results of wrapped calls as the guest saw them, now and in the run before
    pollables,                     \* timer pollables created by subscribe_instant
    host_call,                     \* the host call in progress or finished last
    shard_owner,                   \* the executor that owns the worker's shard
    routing_table,                 \* the worker service's cached routing: executor of the shard
    routed_call,                   \* the call_worker_executor in progress or finished last
    find_call,                     \* the find_metadata call finished last: inputs, target, result
    fs_call,                      \* the FileSystemBlobStorage call: inputs, result, paths accessed
    redis_key_format,              \* the form of WorkerId::to_redis_key
    oplog_streams,                 \* the workers that have an oplog stream in the storage
    scan_call,                    \* the paging over scan_for_component: cursor, result so far
    fanout_call,                  \* the AllExecutors fan-out: responses, result
    worker_new,                   \* the Worker::new in progress, its result, the metrics recorded
    grpc_requests,                \* the RecordedGrpcRequest values and the metric observations each made
    backends                       \* InMemoryBlobStorage and FileSystemBlobStorage side by side, and the last call on both

oplogVars == <<stream, oplogs, handles, held, max_operations_before_commit,
               pc, entries, pos, arg, res>>

payloadVars == <<blobs, max_payload_size, payload_call, payload_res>>

interruptVars == <<execution_status, receivers, interrupt_ret>>

epochVars == <<store>>

cacheVars == <<active_workers, builds, callers, worker_service>>

hostVars == <<golem_ctx, guest, pollables, host_call>>

routingVars == <<shard_owner, routing_table, routed_call>>

findVars == <<find_call>>

fsVars == <<fs_call>>

scanVars == <<redis_key_format, oplog_streams, scan_call>>

fanOutVars == <<fanout_call>>

newVars == <<worker_new>>

grpcVars == <<grpc_requests>>

backendVars == <<backends>>

laterVars == <<epochVars, cacheVars, hostVars, routingVars, findVars, fsVars, scanVars,
              fanOutVars, newVars, grpcVars, backendVars>>

vars == <<stream, oplogs, handles, held, max_operations_before_commit,
          pc, entries, pos, arg, res,
          blobs, max_payload_size, payload_call, payload_res,
          execution_status, receivers, interrupt_ret,
          store,
          active_workers, builds, callers, worker_service,
          golem_ctx, guest, pollables, host_call,
          shard_owner, routing_table, routed_call,
          find_call, fs_call,
          redis_key_format, oplog_streams, scan_call,
          fanout_call,
          worker_new,
          grpc_requests,
          backends>>

\* ------------------------------------------------- indexed storage (contract)
EmptyStream == [exists |-> FALSE, entries |-> [i \in 1..MaxIdx |-> Absent]]

StorageIndices(s) == {i \in 1..MaxIdx : s.entries[i] # Absent}

StorageExists(s) == s.exists

SetMax(S) == CHOOSE x \in S : \A y \in S : y <= x

SetMin(S) == CHOOSE x \in S : \A y \in S : x <= y

\* first_id / last_id return Option<u64>
StorageLastId(s) ==
    IF StorageIndices(s) = {} THEN [some |-> FALSE, val |-> 0]
    ELSE [some |-> TRUE, val |-> SetMax(StorageIndices(s))]

StorageFirstId(s) ==
    IF StorageIndices(s) = {} THEN [some |-> FALSE, val |-> 0]
    ELSE [some |-> TRUE, val |-> SetMin(StorageIndices(s))]

StorageLength(s) == Cardinality(StorageIndices(s))

\* append only adds above the last index (indices strictly increase, committed
\* entries are immutable): any other index is answered with an error
StorageAppendFails(s, idx) ==
    StorageIndices(s) # {} /\ idx <= SetMax(StorageIndices(s))

StorageAppend(s, idx, e) == [exists |-> TRUE, entries |-> [s.entries EXCEPT ![idx] = e]]

StorageDropPrefix(s, k) ==
    [s EXCEPT !.entries = [i \in 1..MaxIdx |-> IF i <= k THEN Absent ELSE s.entries[i]]]

StorageDelete(s) == EmptyStream

RECURSIVE StorageRead(_, _, _)
\* read(from, to): the (index, entry) pairs of the range, in index order
StorageRead(s, from, to) ==
    IF from > to \/ from > MaxIdx THEN <<>>
    ELSE IF s.entries[from] # Absent
         THEN <<[idx |-> from, entry |-> s.entries[from]]>> \o StorageRead(s, from + 1, to)
         ELSE StorageRead(s, from + 1, to)

\* ------------------------------------------------------------ OplogIndex
OplogIndexNext(i) == i + 1

OplogIndexRangeEnd(i, n) == i + n - 1

\* Option<u64>::unwrap_or_default
UnwrapOrDefault(o) == IF o.some THEN o.val ELSE 0

\* ------------------------------------------------------- oplog payloads
\* byte strings up to MaxData bytes
Bytes == {0, 255}

RECURSIVE SeqsUpTo(_, _)
SeqsUpTo(S, n) ==
    IF n = 0 THEN {<<>>}
    ELSE LET shorter == SeqsUpTo(S, n - 1) IN
         shorter \cup {Append(q, x) : q \in {r \in shorter : Len(r) = n - 1}, x \in S}

Data == SeqsUpTo(Bytes, MaxData)

PayloadIds == {"p1", "p2"}

RECURSIVE ByteSum(_)
ByteSum(data) == IF data = <<>> THEN 0 ELSE data[1] + ByteSum(Tail(data))

\* md5::compute(data).to_vec(): a digest, many byte strings to one (here one
\* byte long instead of sixteen)
Md5(data) == <<(ByteSum(data) + Len(data)) % 256>>

HexDigits == <<"0", "1", "2", "3", "4", "5", "6", "7",
               "8", "9", "A", "B", "C", "D", "E", "F">>

\* {:02X?} of a Vec<u8>: every byte as two upper-case hex digits
DebugHex(v) ==
    [i \in 1..Len(v) |-> <<HexDigits[(v[i] \div 16) + 1], HexDigits[(v[i] % 16) + 1]>>]

\* Path::new(&format!("{:02X?}/{}", md5_hash, payload_id.0)), as the blob
\* storages split it into parent directory and file name
PayloadPath(md5_hash, payload_id) == [dir |-> DebugHex(md5_hash), key |-> payload_id]

Digests == {Md5(d) : d \in Data}

AllPaths == {PayloadPath(m, id) : m \in Digests, id \in PayloadIds}

\* what get_raw finds at a path: None, or Some(data)
NoBlob == [some |-> FALSE, val |-> <<>>]

SomeBlob(data) == [some |-> TRUE, val |-> data]

NoBlobs == [p \in AllPaths |-> NoBlob]

Inline(data) == [kind |-> "Inline", data |-> data, payload_id |-> Absent, md5_hash |-> <<>>]

External(payload_id, md5_hash) ==
    [kind |-> "External", data |-> <<>>, payload_id |-> payload_id, md5_hash |-> md5_hash]

NoPayload == [kind |-> "none", data |-> <<>>, payload_id |-> Absent, md5_hash |-> <<>>]

Payloads ==
    {Inline(d) : d \in Data} \cup {External(id, m) : id \in PayloadIds, m \in Digests}

NoPayloadCall == [pc |-> "idle", data |-> <<>>, payload |-> NoPayload]

\* a finished payload call: its argument (data for upload, payload for
\* download) and its return value (Ok(payload), Ok(bytes) or Err)
PayloadResult(op, data, given, out, payload, bytes) ==
    [op |-> op, data |-> data, arg |-> given, out |-> out, payload |-> payload, bytes |-> bytes]

NoPayloadRes == PayloadResult("none", <<>>, NoPayload, "none", NoPayload, <<>>)

PayloadQuiet ==
    /\ blobs = NoBlobs
    /\ max_payload_size = 0
    /\ payload_call = NoPayloadCall
    /\ payload_res = NoPayloadRes

\* ------------------------------------------------------- ExecutionStatus
InterruptKinds == {"Interrupt", "Restart", "Suspend", "Jump"}

NoKind == "-"

NoChannel == 0

ChannelIds == 1..MaxChannels

WaiterIds == 1..MaxWaiters

Running == [state |-> "Running", interrupt_kind |-> NoKind, await_interruption |-> NoChannel]

Suspended == [state |-> "Suspended", interrupt_kind |-> NoKind, await_interruption |-> NoChannel]

Interrupting(interrupt_kind, await_interruption) ==
    [state |-> "Interrupting", interrupt_kind |-> interrupt_kind,
     await_interruption |-> await_interruption]

Interrupted(interrupt_kind) ==
    [state |-> "Interrupted", interrupt_kind |-> interrupt_kind,
     await_interruption |-> NoChannel]

\* a Receiver slot: not handed out, waiting in recv(), or released from it
NoReceiver == [chan |-> NoChannel, state |-> "none"]

NoRet == [op |-> "none", kind |-> NoKind, some |-> FALSE, waiter |-> 0, chan |-> NoChannel]

StatusQuiet ==
    /\ execution_status = Suspended
    /\ receivers = [w \in WaiterIds |-> NoReceiver]
    /\ interrupt_ret = NoRet

\* ------------------------------------------------------- wasmtime Store
\* results of the epoch deadline callback
NoEpochRet == [tag |-> "none", kind |-> NoKind, ticks |-> 0]

\* Err(kind.into())
EpochErr(kind) == [tag |-> "Err", kind |-> kind, ticks |-> 0]

\* Ok(UpdateDeadline::Yield(n))
EpochYield(n) == [tag |-> "Yield", kind |-> NoKind, ticks |-> n]

\* the store of a worker whose guest is not running; account is the fuel
\* the worker's account can still lend
NewStore ==
    [fuel_remaining |-> MaxFuel, account |-> MaxFuel, guest |-> "idle",
     borrowed |-> FALSE, epoch_ret |-> NoEpochRet]

StoreQuiet == store = NewStore

\* ------------------------------------------------- active-worker cache
Callers == {"c1", "c2"}

WorkerArgs == {"args1", "args2"}

WorkerEnvs == {"env1", "env2"}

\* template_version: None
NoVersion == 0

\* what template_service().get_latest answers
LatestVersion == 2

TemplateVersions == 1..LatestVersion

NoMetadata == [args |-> "-", env |-> "-", template_version |-> NoVersion]

WorkerMetadata(worker_args, worker_env, template_version) ==
    [args |-> worker_args, env |-> worker_env, template_version |-> template_version]

\* results of get_or_create (Ok, Err) and get_or_create_pending (Pending, Final, Err)
NoOut == [tag |-> "none", build |-> 0, error |-> "-"]

OutOk(build) == [tag |-> "Ok", build |-> build, error |-> "-"]

OutPending(build) == [tag |-> "Pending", build |-> build, error |-> "-"]

OutFinal(build) == [tag |-> "Final", build |-> build, error |-> "-"]

OutErr(error) == [tag |-> "Err", build |-> 0, error |-> error]

IdleCaller ==
    [pc |-> "idle", op |-> "none", worker_args |-> "-", worker_env |-> "-",
     template_version |-> NoVersion, build |-> 0, out |-> NoOut]

EmptySlot == [state |-> "empty", build |-> 0]

CacheQuiet ==
    /\ active_workers = EmptySlot
    /\ builds = <<>>
    /\ callers = [c \in Callers |-> IdleCaller]
    /\ worker_service = <<>>

\* ------------------------------------------------------ host functions
\* Instant and Duration are u64; the model keeps the width, scaled down
Instants == 0..MaxInstant

ClockFunctions == {"monotonic_clock::now", "monotonic_clock::resolution"}

TcpFunctions ==
    {"start_bind", "finish_bind", "start_connect", "finish_connect",
     "start_listen", "finish_listen", "accept", "local_address", "remote_address",
     "is_listening", "address_family", "ipv6_only", "keep_alive_enabled",
     "keep_alive_idle_time", "keep_alive_interval", "keep_alive_count", "hop_limit",
     "receive_buffer_size", "send_buffer_size", "shutdown"}

\* anyhow::Result<Instant>
OkInstant(val) == [ok |-> TRUE, val |-> val]

ErrInstant == [ok |-> FALSE, val |-> 0]

\* OplogEntry::ImportedFunctionInvoked { fn, outcome }
ImportedFunctionInvoked(function_name, outcome) == [fn |-> function_name, outcome |-> outcome]

NoHostCall ==
    [pc |-> "idle", fn |-> "-", when |-> 0, now |-> 0, entry |-> 0,
     outcome |-> ErrInstant, real |-> FALSE, journalled |-> FALSE]

NewGolemCtx == [mode |-> "live", oplog |-> <<>>, committed |-> 0, replay_idx |-> 0, clock |-> 0]

HostQuiet ==
    /\ golem_ctx = NewGolemCtx
    /\ guest = [trace |-> <<>>, original |-> <<>>]
    /\ pollables = <<>>
    /\ host_call = NoHostCall

\* -------------------------------------------------------- routed calls
Executors == {"A", "B"}

NoExecutor == "-"

\* attempts a routed call makes before a routing error is surfaced
RetryBudget == 3

\* what comes back from the executor a request was sent to
RoutingErrors == {"InvalidShard", "ConnectionFailure"}

ExecutorResponses == {"Success", "Failure", "Empty"}

NoRoutedCall == [pc |-> "idle", attempts |-> 0, sent_to |-> NoExecutor, rejected |-> 0,
                 out |-> "none"]

RoutingQuiet ==
    /\ shard_owner = "A"
    /\ routing_table = NoExecutor
    /\ routed_call = NoRoutedCall

\* ------------------------------------------------------- find_metadata
\* WorkerFilter::Status(f): f.comparator, f.value
StatusFilter(comparator, value) ==
    [tag |-> "Status", comparator |-> comparator, value |-> value, filters |-> <<>>]

\* WorkerFilter::Name(..), standing for the filters on other fields
NameFilter == [tag |-> "Name", comparator |-> "Equal", value |-> "-", filters |-> <<>>]

AndFilter(filters) == [tag |-> "And", comparator |-> "-", value |-> "-", filters |-> filters]

OrFilter(filters) == [tag |-> "Or", comparator |-> "-", value |-> "-", filters |-> filters]

NotFilter(filter) == [tag |-> "Not", comparator |-> "-", value |-> "-", filters |-> <<filter>>]

AtomicFilters ==
    {StatusFilter(cmp, v) : cmp \in {"Equal", "NotEqual"}, v \in {"Running", "Idle"}}
       \cup {NameFilter}

PairsOf(S) == {<<a>> : a \in S} \cup {<<a, b>> : a \in S, b \in S}

FlatFilters ==
    AtomicFilters \cup {AndFilter(fs) : fs \in PairsOf(AtomicFilters)}
                  \cup {OrFilter(fs) : fs \in PairsOf(AtomicFilters)}
                  \cup {NotFilter(f) : f \in AtomicFilters}

\* filter: Option<WorkerFilter>; NoFilter is None
NoFilter == [tag |-> "None", comparator |-> "-", value |-> "-", filters |-> <<>>]

WorkerFilters ==
    {NoFilter} \cup FlatFilters
               \cup {AndFilter(<<NameFilter, f>>) :
                        f \in {AndFilter(<<StatusFilter("Equal", "Running")>>),
                               OrFilter(<<StatusFilter("Equal", "Running")>>),
                               NotFilter(StatusFilter("Equal", "Running"))}}

\* ScanCursor values a caller passes, and Option<ScanCursor> = None
ScanCursors == {"cursor0", "cursor7"}

NoCursor == "None"

NoFindCall ==
    [op |-> "none", filter |-> NoFilter, cursor |-> NoCursor, count |-> 0,
     target |-> "-", ok |-> FALSE, out_cursor |-> NoCursor, workers |-> <<>>]

FindQuiet == find_call = NoFindCall

\* ------------------------------------------------ FileSystemBlobStorage
\* self.root, canonical: the components below "/"
Root == <<"root">>

\* the accounts; the calls are made on behalf of "acc1"
OtherAccount == "acc2"

\* BlobStorageNamespace::CompilationCache and ::CustomStorage(account_id)
Namespaces == {"CompilationCache", "CustomStorage(acc1)"}

\* components a caller's path is made of
PathComponents == {"..", "a", "root", "custom_data", OtherAccount}

\* &Path: absolute or relative, and its components
Paths == [absolute : BOOLEAN, comps : SeqsUpTo(PathComponents, MaxPathLen)]

\* the second path of the two copies
TargetPaths == [absolute : BOOLEAN, comps : SeqsUpTo(PathComponents, 1)]

EmptyPath == [absolute |-> FALSE, comps |-> <<>>]

CheckedOps ==
    {"get_raw", "get_metadata", "put_raw", "delete", "create_dir", "list_dir",
     "delete_dir", "exists"}

BlobOps == CheckedOps \cup {"copy", "copy_dir_contents"}

NoFsCall ==
    [pc |-> "none", op |-> "-", namespace |-> "CompilationCache",
     target |-> "CompilationCache", path |-> EmptyPath, to |-> EmptyPath,
     ok |-> FALSE, accessed |-> {}]

FsQuiet == fs_call = NoFsCall

\* ------------------------------------------------ scan_for_component
ComponentIds == {"c1", "c2"}

\* WorkerId {component_id, worker_name}
WorkerIds == [component_id : ComponentIds, worker_name : {"a", "b"}]

\* the order in which the storage keeps its stream keys
KeyOrder ==
    <<[component_id |-> "c1", worker_name |-> "a"], [component_id |-> "c2", worker_name |-> "a"],
      [component_id |-> "c1", worker_name |-> "b"], [component_id |-> "c2", worker_name |-> "b"]>>

\* WorkerId::to_redis_key is outside the repository's sources: the two forms
\* it can have, "<component>:<name>" and "worker:oplog:<component>:<name>"
RedisKeyFormats == {"component:name", "worker:oplog:component:name"}

NoScanCall ==
    [pc |-> "idle", component_id |-> "c1", cursor |-> 0, calls |-> 0,
     out |-> "none", worker_ids |-> <<>>]

ScanQuiet ==
    /\ redis_key_format = "-"
    /\ oplog_streams = {}
    /\ scan_call = NoScanCall

\* ------------------------------------------------ find_running_metadata_internal
\* the workers of a GetRunningWorkersMetadataSuccessResponse; "bad" is one
\* whose try_into fails
ProtoWorkers == {"w1", "w2", "bad"}

SuccessResponse(workers) == [result |-> "Success", workers |-> workers]

FailureResponse == [result |-> "Failure", workers |-> <<>>]

EmptyResponse == [result |-> "None", workers |-> <<>>]

RunningWorkersResponses ==
    {SuccessResponse(ws) : ws \in SeqsUpTo(ProtoWorkers, 2)} \cup {FailureResponse, EmptyResponse}

NoFanOut ==
    [pc |-> "idle", responses |-> <<>>, ok |-> FALSE, err |-> "-", workers |-> <<>>]

FanOutQuiet == fanout_call = NoFanOut

\* ------------------------------------------------ Worker::new
\* the fallible steps of Worker::new after worker_service().add, in order
LaterSteps ==
    <<"Ctx::create", "add_fuel/borrow_fuel", "instantiate_pre", "instantiate_async",
      "prepare_instance">>

NoWorkerNew ==
    [pc |-> "idle", step |-> 0, metadata |-> NoMetadata, out |-> "none", failed_at |-> "-",
     calls |-> 0, create_worker |-> 0, create_worker_failure |-> 0]

WorkerNewQuiet == worker_new = NoWorkerNew

\* ------------------------------------------------ grpc::RecordedGrpcRequest
ApiNames == {"create_worker", "invoke_worker"}

\* GolemError::kind()
ErrorKinds == {"WorkerNotFound", "Unknown"}

\* a RecordedGrpcRequest that was never constructed
NoRequest ==
    [state |-> "none", api_name |-> "-", start_time |-> "None", ended_by |-> "-",
     observations |-> <<>>]

GrpcQuiet == grpc_requests = [r \in 1..MaxRequests |-> NoRequest]

\* ------------------------------------------------ the two BlobStorage backends
\* relative paths inside one namespace: 1..MaxDepth components
BlobPaths == SeqsUpTo({"a"}, MaxDepth) \ {<<>>}

NoBlobResult == [tag |-> "none", found |-> {}]

\* InMemoryBlobStorage: the directory keys of the namespace and the entries in
\* them; FileSystemBlobStorage: the directories and files below the
\* namespace directory
EmptyBackends ==
    [mem_dirs |-> {}, mem_files |-> {}, fs_dirs |-> {}, fs_files |-> {},
     op |-> "none", path |-> <<>>, mem |-> NoBlobResult, fs |-> NoBlobResult]

BackendsQuiet == backends = EmptyBackends

LaterQuiet ==
    /\ StoreQuiet
    /\ CacheQuiet
    /\ HostQuiet
    /\ RoutingQuiet
    /\ FindQuiet
    /\ FsQuiet
    /\ ScanQuiet
    /\ FanOutQuiet
    /\ WorkerNewQuiet
    /\ GrpcQuiet
    /\ BackendsQuiet

\* ---------------------------------------------------------------- state
DeadHandle ==
    [live |-> FALSE, buffer |-> <<>>, last_oplog_idx |-> 0, last_committed_idx |-> 0,
     lock |-> NoTask]

\* PrimaryOplog::new
NewPrimaryOplog(last_oplog_idx) ==
    [live |-> TRUE, buffer |-> <<>>, last_oplog_idx |-> last_oplog_idx,
     last_committed_idx |-> last_oplog_idx, lock |-> NoTask]

NoArg == [e |-> Absent, n |-> 0]

NoRes == [op |-> "none", out |-> "none", num |-> 0, ent |-> Absent]

Result(op, out, num, ent) == [op |-> op, out |-> out, num |-> num, ent |-> ent]

Init ==
    /\ stream = EmptyStream
    /\ oplogs = NoHandle
    /\ handles = [h \in HandleIds |-> DeadHandle]
    /\ held = [t \in Tasks |-> NoHandle]
    /\ max_operations_before_commit \in 0..MaxThreshold
    /\ pc = [t \in Tasks |-> "idle"]
    /\ entries = [t \in Tasks |-> <<>>]
    /\ pos = [t \in Tasks |-> 0]
    /\ arg = [t \in Tasks |-> NoArg]
    /\ res = NoRes
    /\ PayloadQuiet
    /\ StatusQuiet
    /\ LaterQuiet

\* a call returns (or panics): the task is idle again, its locals are gone
Return(t, r) ==
    /\ pc' = [pc EXCEPT ![t] = "idle"]
    /\ entries' = [entries EXCEPT ![t] = <<>>]
    /\ pos' = [pos EXCEPT ![t] = 0]
    /\ arg' = [arg EXCEPT ![t] = NoArg]
    /\ res' = r
    /\ UNCHANGED <<payloadVars, interruptVars, laterVars>>

\* a call goes on to its next await; it touches neither the blob storage nor
\* the worker's execution status
Goto(t, label) ==
    /\ pc' = [pc EXCEPT ![t] = label]
    /\ UNCHANGED <<payloadVars, interruptVars, laterVars>>

Holders(h) == {t \in Tasks : held[t] = h}

FreeHandleIds == {h \in HandleIds : ~handles[h].live}

\* ------------------------------------------------ PrimaryOplogService::create
CreateExistsUnchecked(t, e) ==
    /\ pc[t] = "idle"
    /\ held[t] = NoHandle
    /\ Goto(t, "create_append")
    /\ arg' = [arg EXCEPT ![t] = [e |-> e, n |-> 0]]
    /\ UNCHANGED <<entries, pos, res>>
    /\ UNCHANGED <<stream, oplogs, handles, held, max_operations_before_commit>>

\* lines 102-114: the existence check, and the panic when the oplog exists
CreateExists(t, e) ==
    /\ pc[t] = "idle"
    /\ held[t] = NoHandle
    /\ IF StorageExists(stream)
       THEN Return(t, Result("create", "panic_exists", 0, Absent))
       ELSE /\ Goto(t, "create_append")
            /\ arg' = [arg EXCEPT ![t] = [e |-> e, n |-> 0]]
            /\ UNCHANGED <<entries, pos, res>>
    /\ UNCHANGED <<stream, oplogs, handles, held, max_operations_before_commit>>

\* lines 116-124: append(OpLog, key, 1, initial_entry), panic on a storage error
CreateAppend(t) ==
    /\ pc[t] = "create_append"
    /\ IF StorageAppendFails(stream, 1)
       THEN /\ Return(t, Result("create", "panic_append", 0, Absent))
            /\ UNCHANGED stream
       ELSE /\ stream' = StorageAppend(stream, 1, arg[t].e)
            /\ Goto(t, "create_open")
            /\ UNCHANGED <<entries, pos, arg, res>>
    /\ UNCHANGED <<oplogs, handles, held, max_operations_before_commit>>

\* ------------------------------------------------ PrimaryOplogService::open
\* PrimaryOplogService::get_last_index
GetLastIndex(s) == UnwrapOrDefault(StorageLastId(s))

\* PrimaryOplogService::get_first_index
GetFirstIndex(s) == UnwrapOrDefault(StorageFirstId(s))

\* lines 136-137: open reads the last index before it enters get_or_open
OpenGetLastIndex(t) ==
    /\ \/ pc[t] = "idle" /\ held[t] = NoHandle
       \/ pc[t] = "create_open"
    /\ Goto(t, IF pc[t] = "idle" THEN "open_get_or_open" ELSE "create_get_or_open")
    /\ arg' = [arg EXCEPT ![t].n = GetLastIndex(stream)]
    /\ UNCHANGED <<stream, oplogs, handles, held, max_operations_before_commit,
                   entries, pos, res>>

\* OpenOplogs::get_or_open: the live handle of the slot, or a new one built by
\* CreateOplogConstructor::create_oplog with the last index read before
OpenGetOrOpen(t) ==
    /\ pc[t] \in {"open_get_or_open", "create_get_or_open"}
    /\ IF oplogs # NoHandle
       THEN /\ held' = [held EXCEPT ![t] = oplogs]
            /\ Return(t, Result(IF pc[t] = "open_get_or_open" THEN "open" ELSE "create",
                                "ok", oplogs, Absent))
            /\ UNCHANGED <<oplogs, handles>>
       ELSE \E h \in FreeHandleIds :
                /\ handles' = [handles EXCEPT ![h] = NewPrimaryOplog(arg[t].n)]
                /\ oplogs' = h
                /\ held' = [held EXCEPT ![t] = h]
                /\ Return(t, Result(IF pc[t] = "open_get_or_open" THEN "open" ELSE "create",
                                    "ok", h, Absent))
    /\ UNCHANGED <<stream, max_operations_before_commit>>

\* ------------------------------------------------ impl Drop for PrimaryOplog
DropHandleClosesAlways(t) ==
    /\ pc[t] = "idle"
    /\ held[t] # NoHandle
    /\ held' = [held EXCEPT ![t] = NoHandle]
    /\ handles' = [handles EXCEPT ![held[t]] = DeadHandle]
    /\ oplogs' = NoHandle
    /\ Return(t, Result("drop", "ok", 0, Absent))
    /\ UNCHANGED <<stream, max_operations_before_commit>>

DropHandleCommitsBuffer(t) ==
    /\ pc[t] = "idle"
    /\ held[t] # NoHandle
    /\ held' = [held EXCEPT ![t] = NoHandle]
    /\ IF Holders(held[t]) = {t}
       THEN /\ handles' = [handles EXCEPT ![held[t]] = DeadHandle]
            /\ oplogs' = NoHandle
            /\ LET st == handles[held[t]]
                   last == st.last_committed_idx
               IN  stream' =
                      [exists |-> stream.exists \/ st.buffer # <<>>,
                       entries |-> [i \in 1..MaxIdx |->
                                      IF i > last /\ i <= last + Len(st.buffer)
                                         THEN st.buffer[i - last] ELSE stream.entries[i]]]
       ELSE UNCHANGED <<handles, oplogs, stream>>
    /\ Return(t, Result("drop", "ok", 0, Absent))
    /\ UNCHANGED max_operations_before_commit

\* a task releases its Arc; the last release drops the PrimaryOplog, whose
\* close (taken once) removes the registry slot
DropHandle(t) ==
    /\ pc[t] = "idle"
    /\ held[t] # NoHandle
    /\ held' = [held EXCEPT ![t] = NoHandle]
    /\ IF Holders(held[t]) = {t}
       THEN /\ handles' = [handles EXCEPT ![held[t]] = DeadHandle]
            /\ oplogs' = NoHandle
       ELSE UNCHANGED <<handles, oplogs>>
    /\ Return(t, Result("drop", "ok", 0, Absent))
    /\ UNCHANGED <<stream, max_operations_before_commit>>

\* ------------------------------------------------ PrimaryOplogService, no handle
\* PrimaryOplogService::delete
SvcDelete(t) ==
    /\ pc[t] = "idle"
    /\ stream' = StorageDelete(stream)
    /\ Return(t, Result("svc_delete", "ok", 0, Absent))
    /\ UNCHANGED <<oplogs, handles, held, max_operations_before_commit>>

\* PrimaryOplogService::get_last_index called on its own
SvcGetLastIndex(t) ==
    /\ pc[t] = "idle"
    /\ Return(t, Result("svc_get_last_index", "ok", GetLastIndex(stream), Absent))
    /\ UNCHANGED <<stream, oplogs, handles, held, max_operations_before_commit>>

\* ------------------------------------------------ PrimaryOplogState
LockFreeNoMutex(t) ==
    /\ pc[t] = "idle"
    /\ held[t] # NoHandle

\* self.state.lock().await of every method of impl Oplog for PrimaryOplog
LockFree(t) ==
    /\ pc[t] = "idle"
    /\ held[t] # NoHandle
    /\ handles[held[t]].lock = NoTask

CommitTriggeredAtThreshold(buf) == Len(buf) >= max_operations_before_commit

CommitTriggeredOneLate(buf) == Len(buf) > max_operations_before_commit + 1

AfterAddFromCommitted(st) == [st EXCEPT !.last_oplog_idx = OplogIndexNext(st.last_committed_idx)]

NextAppendIndexFromStaged(st) == OplogIndexNext(st.last_oplog_idx)

\* line 421: the test that makes add commit
CommitTriggered(buf) == Len(buf) > max_operations_before_commit

\* line 424: the staged index moves on by one
AfterAdd(st) == [st EXCEPT !.last_oplog_idx = OplogIndexNext(st.last_oplog_idx)]

\* line 397: the index the next entry of a commit is written at
NextAppendIndex(st) == OplogIndexNext(st.last_committed_idx)

\* lines 542-545 and 417-425: lock, push_back, commit when the buffer is longer
\* than max_operations_before_commit, then last_oplog_idx.next()
AddBegin(t, e) ==
    /\ LockFree(t)
    /\ handles[held[t]].last_oplog_idx < MaxIdx
    /\ LET h == held[t]
           buf == Append(handles[h].buffer, e)
       IN IF CommitTriggered(buf)
          THEN /\ handles' = [handles EXCEPT ![h].buffer = <<>>, ![h].lock = t]
               /\ entries' = [entries EXCEPT ![t] = buf]
               /\ Goto(t, "add_append")
               /\ UNCHANGED <<pos, arg, res>>
          ELSE /\ handles' = [handles EXCEPT ![h] = AfterAdd([handles[h] EXCEPT !.buffer = buf])]
               /\ Return(t, Result("add", "ok", 0, Absent))
    /\ UNCHANGED <<stream, oplogs, held, max_operations_before_commit>>

\* lines 556-559 and 427-432: lock, drain the buffer, append the drained entries
CommitBegin(t) ==
    /\ LockFree(t)
    /\ LET h == held[t] IN
        IF handles[h].buffer = <<>>
        THEN /\ Return(t, Result("commit", "ok", 0, Absent))
             /\ UNCHANGED handles
        ELSE /\ handles' = [handles EXCEPT ![h].buffer = <<>>, ![h].lock = t]
             /\ entries' = [entries EXCEPT ![t] = handles[h].buffer]
             /\ Goto(t, "commit_append")
             /\ UNCHANGED <<pos, arg, res>>
    /\ UNCHANGED <<stream, oplogs, held, max_operations_before_commit>>

\* lines 396-414: one iteration of append's loop, then what the caller does
\* when the loop is over
AppendEntry(t) ==
    /\ pc[t] \in {"add_append", "commit_append", "wait_append"}
    /\ LET h == held[t]
           oplog_idx == NextAppendIndex(handles[h])
           op == CASE pc[t] = "add_append" -> "add"
                   [] pc[t] = "commit_append" -> "commit"
                   [] OTHER -> "wait_for_replicas"
       IN IF StorageAppendFails(stream, oplog_idx)
          THEN /\ handles' = [handles EXCEPT ![h].lock = NoTask]
               /\ Return(t, Result(op, "panic_append", oplog_idx, Absent))
               /\ UNCHANGED stream
          ELSE /\ stream' = StorageAppend(stream, oplog_idx, entries[t][pos[t] + 1])
               /\ IF pos[t] + 1 < Len(entries[t])
                  THEN /\ handles' = [handles EXCEPT ![h].last_committed_idx = oplog_idx]
                       /\ pos' = [pos EXCEPT ![t] = pos[t] + 1]
                       /\ UNCHANGED <<pc, entries, arg, res, payloadVars, interruptVars, laterVars>>
                  ELSE IF op = "wait_for_replicas"
                  THEN /\ handles' = [handles EXCEPT ![h].last_committed_idx = oplog_idx]
                       /\ Goto(t, "wait_storage")
                       /\ entries' = [entries EXCEPT ![t] = <<>>]
                       /\ pos' = [pos EXCEPT ![t] = 0]
                       /\ UNCHANGED <<arg, res>>
                  ELSE /\ LET st == [handles[h] EXCEPT !.last_committed_idx = oplog_idx,
                                                         !.lock = NoTask]
                          IN handles' = [handles EXCEPT
                                 ![h] = IF op = "add" THEN AfterAdd(st) ELSE st]
                       /\ Return(t, Result(op, "ok", Len(entries[t]), Absent))
    /\ UNCHANGED <<oplogs, held, max_operations_before_commit>>

ReadRangeFromFirst(oplog_index) == StorageRead(stream, 1, oplog_index)

\* lines 455-464: the storage read of the one-index range
ReadRange(oplog_index) == StorageRead(stream, oplog_index, oplog_index)

\* lines 572-575 and 452-482: lock, read(key, idx, idx), the first pair's entry,
\* panic when the range is empty
Read(t, oplog_index) ==
    /\ LockFree(t)
    /\ LET found == ReadRange(oplog_index) IN
        IF found = <<>>
        THEN Return(t, Result("read", "panic_missing", oplog_index, Absent))
        ELSE Return(t, Result("read", "ok", oplog_index, found[1].entry))
    /\ UNCHANGED <<stream, oplogs, handles, held, max_operations_before_commit>>

\* lines 577-580 and 503-516
Length(t) ==
    /\ LockFree(t)
    /\ Return(t, Result("length", "ok", StorageLength(stream), Absent))
    /\ UNCHANGED <<stream, oplogs, handles, held, max_operations_before_commit>>

\* lines 561-564
CurrentOplogIndex(t) ==
    /\ LockFree(t)
    /\ Return(t, Result("current_oplog_index", "ok", handles[held[t]].last_oplog_idx, Absent))
    /\ UNCHANGED <<stream, oplogs, handles, held, max_operations_before_commit>>

\* lines 547-549 and 484-501: lock, then the storage's drop_prefix
DropPrefix(t, last_dropped_id) ==
    /\ LockFree(t)
    /\ stream' = StorageDropPrefix(stream, last_dropped_id)
    /\ handles' = [handles EXCEPT ![held[t]].lock = t]
    /\ Goto(t, "drop_prefix_length")
    /\ UNCHANGED <<oplogs, held, max_operations_before_commit, entries, pos, arg, res>>

DropPrefixLengthNeverDeletes(t) ==
    /\ pc[t] = "drop_prefix_length"
    /\ handles' = [handles EXCEPT ![held[t]].lock = NoTask]
    /\ Return(t, Result("drop_prefix", "ok", 0, Absent))
    /\ UNCHANGED <<stream, oplogs, held, max_operations_before_commit>>

\* lines 550-551: the length read that decides whether the stream is deleted
DropPrefixLength(t) ==
    /\ pc[t] = "drop_prefix_length"
    /\ IF StorageLength(stream) = 0
       THEN /\ Goto(t, "drop_prefix_delete")
            /\ UNCHANGED <<handles, entries, pos, arg, res>>
       ELSE /\ handles' = [handles EXCEPT ![held[t]].lock = NoTask]
            /\ Return(t, Result("drop_prefix", "ok", 0, Absent))
    /\ UNCHANGED <<stream, oplogs, held, max_operations_before_commit>>

DropPrefixDeleteResetsIndices(t) ==
    /\ pc[t] = "drop_prefix_delete"
    /\ stream' = StorageDelete(stream)
    /\ handles' = [handles EXCEPT ![held[t]].lock = NoTask,
                                  ![held[t]].last_committed_idx = 0,
                                  ![held[t]].last_oplog_idx = Len(handles[held[t]].buffer)]
    /\ Return(t, Result("drop_prefix", "ok", 1, Absent))
    /\ UNCHANGED <<oplogs, held, max_operations_before_commit>>

\* lines 552 and 518-531: delete of the emptied stream
DropPrefixDelete(t) ==
    /\ pc[t] = "drop_prefix_delete"
    /\ stream' = StorageDelete(stream)
    /\ handles' = [handles EXCEPT ![held[t]].lock = NoTask]
    /\ Return(t, Result("drop_prefix", "ok", 1, Absent))
    /\ UNCHANGED <<oplogs, held, max_operations_before_commit>>

Min(a, b) == IF a <= b THEN a ELSE b

\* lines 566-569: lock, commit, then PrimaryOplogState::wait_for_replicas
WaitForReplicasBegin(t, replicas) ==
    /\ LockFree(t)
    /\ LET h == held[t] IN
        /\ handles' = [handles EXCEPT ![h].buffer = <<>>, ![h].lock = t]
        /\ entries' = [entries EXCEPT ![t] = handles[h].buffer]
        /\ Goto(t, IF handles[h].buffer = <<>> THEN "wait_storage" ELSE "wait_append")
        /\ arg' = [arg EXCEPT ![t] = [e |-> Absent, n |-> replicas]]
    /\ UNCHANGED <<stream, oplogs, held, max_operations_before_commit, pos, res>>

ClampReplicasUnclamped(replicas) == replicas

\* line 437: replicas.min(self.replicas)
ClampReplicas(replicas) == Min(replicas, Replicas)

WaitOutcomeAbortsOnError(ok, reported, replicas) ==
    IF ~ok THEN "panic_storage" ELSE IF reported = replicas THEN "true" ELSE "false"

\* lines 444-449: Ok(n) => n == replicas, Err(err) => false
WaitOutcome(ok, reported, replicas) ==
    IF ok THEN (IF reported = replicas THEN "true" ELSE "false") ELSE "false"

\* lines 434-450: the storage reports a replica count or an error
WaitForReplicasAnswer(t, reported, ok) ==
    /\ pc[t] = "wait_storage"
    /\ LET replicas == ClampReplicas(arg[t].n) IN
            Return(t, Result("wait_for_replicas",
                             WaitOutcome(ok, reported, replicas),
                             replicas, Absent))
    /\ handles' = [handles EXCEPT ![held[t]].lock = NoTask]
    /\ UNCHANGED <<stream, oplogs, held, max_operations_before_commit>>

\* the backend answers Ok(reported) or, on a timeout or failure, Err
WaitForReplicasStorage(t) ==
    \E reported \in 0..Replicas, ok \in BOOLEAN : WaitForReplicasAnswer(t, reported, ok)

\* PrimaryOplogService::read, lines 203-226; the outcome kept is the number of
\* entries returned and the first of them
SvcRead(t, idx, n) ==
    /\ pc[t] = "idle"
    /\ LET found == StorageRead(stream, idx, OplogIndexRangeEnd(idx, n)) IN
        Return(t, Result("svc_read", "ok", Len(found),
                         IF found = <<>> THEN Absent ELSE found[1].entry))
    /\ UNCHANGED <<stream, oplogs, handles, held, max_operations_before_commit>>

\* PrimaryOplogService::exists, lines 228-238
SvcExists(t) ==
    /\ pc[t] = "idle"
    /\ Return(t, Result("svc_exists", IF StorageExists(stream) THEN "true" ELSE "false",
                        0, Absent))
    /\ UNCHANGED <<stream, oplogs, handles, held, max_operations_before_commit>>

Step(t) ==
        \/ \E e \in OplogEntries : CreateExists(t, e)
        \/ CreateAppend(t)
        \/ OpenGetLastIndex(t)
        \/ OpenGetOrOpen(t)
        \/ DropHandle(t)
        \/ SvcDelete(t)
        \/ SvcGetLastIndex(t)
        \/ \E e \in OplogEntries : AddBegin(t, e)
        \/ CommitBegin(t)
        \/ AppendEntry(t)
        \/ \E k \in 1..MaxIdx : DropPrefix(t, k)
        \/ DropPrefixLength(t)
        \/ DropPrefixDelete(t)
        \/ \E k \in 1..2, n \in 1..2 : SvcRead(t, k, n)

Next == \E t \in Tasks : Step(t)

Spec == Init /\ [][Next]_vars

\* ---- one handle, shared by the tasks: the state after create(W, e) by t1,
\* then the operations of impl Oplog for PrimaryOplog, and open by another task
InitHandle ==
    \E e \in OplogEntries :
        /\ stream = StorageAppend(EmptyStream, 1, e)
        /\ oplogs = 1
        /\ handles = [h \in HandleIds |-> IF h = 1 THEN NewPrimaryOplog(1) ELSE DeadHandle]
        /\ held = [t \in Tasks |-> IF t = "t1" THEN 1 ELSE NoHandle]
        /\ max_operations_before_commit \in 0..MaxThreshold
        /\ pc = [t \in Tasks |-> "idle"]
        /\ entries = [t \in Tasks |-> <<>>]
        /\ pos = [t \in Tasks |-> 0]
        /\ arg = [t \in Tasks |-> NoArg]
        /\ res = Result("create", "ok", 1, Absent)
        /\ PayloadQuiet
        /\ StatusQuiet
        /\ LaterQuiet

HandleStep(t) ==
        \/ pc[t] # "create_open" /\ OpenGetLastIndex(t)
        \/ OpenGetOrOpen(t)
        \/ \E e \in OplogEntries : AddBegin(t, e)
        \/ CommitBegin(t)
        \/ AppendEntry(t)
        \/ \E k \in 1..MaxIdx : Read(t, k)
        \/ Length(t)
        \/ CurrentOplogIndex(t)
        \/ \E k \in 1..MaxIdx : DropPrefix(t, k)
        \/ DropPrefixLength(t)
        \/ DropPrefixDelete(t)
        \/ \E n \in 1..(Replicas + 1) : WaitForReplicasBegin(t, n)
        \/ WaitForReplicasStorage(t)

NextHandle == \E t \in Tasks : HandleStep(t)

SpecHandle == InitHandle /\ [][NextHandle]_vars

\* ---- one caller at a time: every call of the service and of the handle,
\* each run to its end before the next begins
NextSeq == Step("t1")

SpecSeq == Init /\ [][NextSeq]_vars

\* ---- restart: the oplog created once, then written, read, dropped and
\* reopened by one owner
RestartStep(t) ==
        \/ pc[t] # "create_open" /\ OpenGetLastIndex(t)
        \/ OpenGetOrOpen(t)
        \/ DropHandle(t)
        \/ \E e \in OplogEntries : AddBegin(t, e)
        \/ CommitBegin(t)
        \/ AppendEntry(t)
        \/ \E k \in 1..MaxIdx : Read(t, k)
        \/ \E k \in 1..MaxIdx : DropPrefix(t, k)
        \/ DropPrefixLength(t)
        \/ DropPrefixDelete(t)

NextRestart == RestartStep("t1")

SpecRestart == InitHandle /\ [][NextRestart]_vars

\* ------------------------------------------------ backend errors
\* PrimaryOplogService::get_first_index, lines 157-172
SvcGetFirstIndex(t) ==
    /\ pc[t] = "idle"
    /\ Return(t, Result("svc_get_first_index", "ok", GetFirstIndex(stream), Absent))
    /\ UNCHANGED <<stream, oplogs, handles, held, max_operations_before_commit>>

\* the calls of the indexed storage whose Err the oplog code receives
ErrorSites ==
    {"create_exists", "create_append", "open_last_id",
     "svc_first_id", "svc_last_id", "svc_delete", "svc_read", "svc_exists",
     "append", "read", "length",
     "drop_prefix", "drop_prefix_length", "drop_prefix_delete"}

\* the task is at (or, when idle, may enter) the storage call of the site
AtSite(t, site) ==
    CASE site = "create_exists" -> pc[t] = "idle" /\ held[t] = NoHandle
      [] site = "create_append" -> pc[t] = "create_append"
      [] site = "open_last_id" -> \/ pc[t] = "idle" /\ held[t] = NoHandle
                                  \/ pc[t] = "create_open"
      [] site \in {"svc_first_id", "svc_last_id", "svc_delete", "svc_read", "svc_exists"} ->
            pc[t] = "idle"
      [] site = "append" -> pc[t] \in {"add_append", "commit_append", "wait_append"}
      [] site \in {"read", "length", "drop_prefix"} -> LockFree(t)
      [] site = "drop_prefix_length" -> pc[t] = "drop_prefix_length"
      [] site = "drop_prefix_delete" -> pc[t] = "drop_prefix_delete"
      [] OTHER -> FALSE

\* the operation that made the storage call
SiteOp(t, site) ==
    CASE site \in {"create_exists", "create_append"} -> "create"
      [] site = "open_last_id" -> (IF pc[t] = "idle" THEN "open" ELSE "create")
      [] site = "append" -> (CASE pc[t] = "add_append" -> "add"
                               [] pc[t] = "commit_append" -> "commit"
                               [] OTHER -> "wait_for_replicas")
      [] site \in {"drop_prefix", "drop_prefix_length", "drop_prefix_delete"} -> "drop_prefix"
      [] OTHER -> site

BackendErrorOutcomeLengthSwallowed(site) ==
    IF site = "drop_prefix_length" THEN "ok" ELSE "panic_storage"

\* every Err of the indexed storage meets .unwrap_or_else(|err| panic!(...))
BackendErrorOutcome(site) == "panic_storage"

\* the storage call of the site returns Err: the operation panics, its guard
\* on the handle's state (if it holds one) is dropped by the unwinding
BackendError(t, site) ==
    /\ AtSite(t, site)
    /\ Return(t, Result(SiteOp(t, site), BackendErrorOutcome(site), 0, Absent))
    /\ handles' = [h \in HandleIds |->
                     IF handles[h].lock = t THEN [handles[h] EXCEPT !.lock = NoTask]
                                            ELSE handles[h]]
    /\ UNCHANGED <<stream, oplogs, held, max_operations_before_commit>>

\* ---- one caller, and an indexed storage that may answer any call with Err
FaultStep(t) ==
        \/ Step(t)
        \/ \E k \in 1..MaxIdx : Read(t, k)
        \/ Length(t)
        \/ SvcExists(t)
        \/ SvcGetFirstIndex(t)
        \/ \E site \in ErrorSites : BackendError(t, site)

NextFault == FaultStep("t1")

SpecFault == Init /\ [][NextFault]_vars

\* ------------------------------------------------ blob storage (put / get)
\* put_raw: the blob at (namespace, dir, key) is data, whatever was there
BlobPut(b, path, data) == [b EXCEPT ![path] = SomeBlob(data)]

\* get_raw: Some(data) or None
BlobGet(b, path) == b[path]

StoredBlobs(b) == {path \in AllPaths : b[path] # NoBlob}

\* ------------------------------------------------ upload_payload / download_payload
IsInlineAtOrBelowHalf(data) == 2 * Len(data) <= max_payload_size

\* lines 592 / 613: data.len() > max_length is external, everything else inline
IsInline(data) == ~(Len(data) > max_payload_size)

DownloadPathSwapped(payload) == PayloadPath(<<0>>, payload.payload_id)

\* lines 637-641: the path download reads
DownloadPath(payload) == PayloadPath(payload.md5_hash, payload.payload_id)

\* lines 582-595 and 613-615: the state lock is taken to copy the
\* configuration; an inline payload is returned at once, an external one gets
\* its PayloadId::new() and md5 and goes on to the put
UploadPayload(t, data) ==
    /\ LockFree(t)
    /\ payload_call.pc = "idle"
    /\ IF IsInline(data)
       THEN /\ payload_res' = PayloadResult("upload", data, NoPayload, "ok", Inline(data), <<>>)
            /\ UNCHANGED payload_call
       ELSE /\ Cardinality(StoredBlobs(blobs)) < MaxBlobs
            /\ \E payload_id \in PayloadIds :
                  payload_call' = [pc |-> "upload_put", data |-> data,
                                   payload |-> External(payload_id, Md5(data))]
            /\ UNCHANGED payload_res
    /\ UNCHANGED <<blobs, max_payload_size, oplogVars, interruptVars, laterVars>>

\* lines 596-612: blob_storage.put(...).await? and the External payload
UploadPut ==
    /\ payload_call.pc = "upload_put"
    /\ LET payload == payload_call.payload
           data == payload_call.data
       IN \E ok \in BOOLEAN :
            IF ok
            THEN /\ blobs' = BlobPut(blobs, PayloadPath(payload.md5_hash, payload.payload_id), data)
                 /\ payload_res' = PayloadResult("upload", data, NoPayload, "ok", payload, <<>>)
            ELSE /\ UNCHANGED blobs
                 /\ payload_res' = PayloadResult("upload", data, NoPayload, "err", NoPayload, <<>>)
    /\ payload_call' = NoPayloadCall
    /\ UNCHANGED <<max_payload_size, oplogVars, interruptVars, laterVars>>

\* lines 618-632: an inline payload is copied out; for an external one the
\* state lock is taken to copy the configuration
DownloadPayload(t, payload) ==
    /\ pc[t] = "idle" /\ held[t] # NoHandle
    /\ payload_call.pc = "idle"
    /\ IF payload.kind = "Inline"
       THEN /\ payload_res' = PayloadResult("download", <<>>, payload, "ok", NoPayload,
                                            payload.data)
            /\ UNCHANGED payload_call
       ELSE /\ handles[held[t]].lock = NoTask
            /\ payload_call' = [pc |-> "download_get", data |-> <<>>, payload |-> payload]
            /\ UNCHANGED payload_res
    /\ UNCHANGED <<blobs, max_payload_size, oplogVars, interruptVars, laterVars>>

\* lines 633-644: blob_storage.get(...).await?.ok_or("Payload not found ...")
DownloadGet ==
    /\ payload_call.pc = "download_get"
    /\ LET payload == payload_call.payload
           found == BlobGet(blobs, DownloadPath(payload))
       IN \E ok \in BOOLEAN :
            payload_res' =
                IF ~ok THEN PayloadResult("download", <<>>, payload, "err", NoPayload, <<>>)
                ELSE IF ~found.some
                THEN PayloadResult("download", <<>>, payload, "not_found", NoPayload, <<>>)
                ELSE PayloadResult("download", <<>>, payload, "ok", NoPayload, found.val)
    /\ payload_call' = NoPayloadCall
    /\ UNCHANGED <<blobs, max_payload_size, oplogVars, interruptVars, laterVars>>

\* ---- payloads: one holder of the handle uploads and downloads
InitPayload ==
    \E e \in OplogEntries :
        /\ stream = StorageAppend(EmptyStream, 1, e)
        /\ oplogs = 1
        /\ handles = [h \in HandleIds |-> IF h = 1 THEN NewPrimaryOplog(1) ELSE DeadHandle]
        /\ held = [t \in Tasks |-> IF t = "t1" THEN 1 ELSE NoHandle]
        /\ max_operations_before_commit = 0
        /\ pc = [t \in Tasks |-> "idle"]
        /\ entries = [t \in Tasks |-> <<>>]
        /\ pos = [t \in Tasks |-> 0]
        /\ arg = [t \in Tasks |-> NoArg]
        /\ res = Result("create", "ok", 1, Absent)
        /\ blobs = NoBlobs
        /\ max_payload_size \in 0..MaxPayloadSize
        /\ payload_call = NoPayloadCall
        /\ payload_res = NoPayloadRes
        /\ StatusQuiet
        /\ LaterQuiet

NextPayload ==
    \/ \E data \in Data : UploadPayload("t1", data)
    \/ UploadPut
    \/ \E payload \in Payloads : DownloadPayload("t1", payload)
    \/ DownloadGet

SpecPayload == InitPayload /\ [][NextPayload]_vars

\* ======================================================================
\* Properties
\* ======================================================================
AppendPcs == {"add_append", "commit_append", "wait_append"}

InsidePcs == AppendPcs \cup {"wait_storage", "drop_prefix_length", "drop_prefix_delete"}

AllIdle == \A t \in Tasks : pc[t] = "idle"


\* the step is the last, successful append of t's commit
CommitSucceeds(t) ==
    /\ pc[t] \in AppendPcs
    /\ pc'[t] \notin AppendPcs
    /\ stream' # stream

\* C1: every commit (explicit, or triggered inside add) takes all staged
\* entries in the order they were added, writes them at consecutive indices
\* starting from last_committed_idx + 1, leaves the staging buffer empty and
\* leaves last_committed_idx at the index of the last entry written.
C1_CommitWritesBatch ==
    [][\A t \in Tasks :
        LET h == held[t] IN
        /\ \A e \in OplogEntries :
              AddBegin(t, e) =>
                 IF pc'[t] = "add_append"
                 THEN /\ entries'[t] = Append(handles[h].buffer, e)
                      /\ handles'[h].buffer = <<>>
                 ELSE handles'[h].buffer = Append(handles[h].buffer, e)
        /\ CommitBegin(t) /\ pc'[t] = "commit_append" =>
              /\ entries'[t] = handles[h].buffer
              /\ handles'[h].buffer = <<>>
        /\ pc[t] \in AppendPcs /\ stream' # stream =>
              /\ stream' = StorageAppend(stream, handles[h].last_committed_idx + 1,
                                         entries[t][pos[t] + 1])
              /\ handles'[h].last_committed_idx = handles[h].last_committed_idx + 1
        /\ CommitSucceeds(t) =>
              LET n == Len(entries[t]) IN
              /\ \A k \in 1..n :
                    stream'.entries[handles'[h].last_committed_idx - n + k] = entries[t][k]
              /\ handles'[h].buffer = <<>>
              /\ handles'[h].last_committed_idx = GetLastIndex(stream')
    ]_vars

\* an add has committed the two staged entries at indices 2 and 3
C1_Witness ==
    /\ res.op = "add" /\ res.out = "ok" /\ res.num >= 2
    /\ AllIdle
    /\ \E h \in HandleIds : handles[h].live /\ handles[h].last_committed_idx = 3

\* C6 as stated: the add that brings the number of staged entries to exactly
\* max_operations_before_commit triggers a commit, the add that brings it to
\* max_operations_before_commit - 1 triggers none.
C6_CommitAtThreshold ==
    [][\A t \in Tasks : \A e \in OplogEntries :
        AddBegin(t, e) =>
            LET staged == Len(handles[held[t]].buffer) + 1 IN
            /\ staged = max_operations_before_commit => pc'[t] = "add_append"
            /\ staged = max_operations_before_commit - 1 => pc'[t] = "idle"
    ]_vars

\* C6 amended: the add that brings the number of staged entries to
\* max_operations_before_commit + 1 triggers exactly one commit, of all of
\* them; an add that brings it to max_operations_before_commit or fewer
\* triggers no commit and writes nothing.
C6_CommitAboveThreshold ==
    [][\A t \in Tasks :
        LET h == held[t] IN
        /\ \A e \in OplogEntries :
              AddBegin(t, e) =>
                 LET staged == Len(handles[h].buffer) + 1 IN
                 /\ staged <= max_operations_before_commit + 1
                 /\ staged = max_operations_before_commit + 1 =>
                       /\ pc'[t] = "add_append"
                       /\ Len(entries'[t]) = max_operations_before_commit + 1
                 /\ staged <= max_operations_before_commit =>
                       /\ pc'[t] = "idle"
                       /\ stream' = stream
                       /\ handles'[h].last_committed_idx = handles[h].last_committed_idx
                       /\ Len(handles'[h].buffer) = staged
        /\ pc[t] = "add_append" /\ pc'[t] # "add_append" =>
              pc'[t] = "idle" /\ handles'[h].buffer = <<>>
    ]_vars

\* an add has just brought the staged entries to threshold + 1 >= 2 and commits
C6_Witness ==
    \E t \in Tasks :
        /\ pc[t] = "add_append"
        /\ max_operations_before_commit >= 1
        /\ Len(entries[t]) = max_operations_before_commit + 1
        /\ pos[t] = 0

\* the step in which an add of a holder of h returns
AddCompletes(h) ==
    \E t \in Tasks :
        /\ held[t] = h
        /\ \/ pc[t] = "idle" /\ \E e \in OplogEntries : AddBegin(t, e) /\ pc'[t] = "idle"
           \/ pc[t] = "add_append" /\ pc'[t] = "idle" /\ res'.out = "ok"

\* C7: between operations current_oplog_index() = last_oplog_idx =
\* last_committed_idx + number of staged entries, so last_committed_idx never
\* exceeds it; a completed add advances it by exactly one, every other step
\* (commit, wait_for_replicas, read, length, drop_prefix) leaves it unchanged.
C7_StagedView ==
    /\ [](\A h \in HandleIds :
            handles[h].live /\ handles[h].lock = NoTask =>
               /\ handles[h].last_oplog_idx =
                      handles[h].last_committed_idx + Len(handles[h].buffer)
               /\ handles[h].last_committed_idx <= handles[h].last_oplog_idx)
    /\ [][/\ \A h \in HandleIds :
               handles[h].live /\ handles'[h].live =>
                  handles'[h].last_oplog_idx =
                      IF AddCompletes(h) THEN handles[h].last_oplog_idx + 1
                      ELSE handles[h].last_oplog_idx
          /\ \A t \in Tasks :
               CurrentOplogIndex(t) =>
                  res'.num = handles[held[t]].last_committed_idx
                                 + Len(handles[held[t]].buffer)
       ]_vars

\* current_oplog_index() answered 3 with one entry staged and two committed
C7_Witness ==
    /\ res.op = "current_oplog_index" /\ res.num = 3
    /\ AllIdle
    /\ \E h \in HandleIds :
          /\ handles[h].live
          /\ handles[h].last_committed_idx = 2
          /\ Len(handles[h].buffer) = 1

\* C10: the operations on one handle exclude each other for their whole
\* duration: at most one task is inside an operation of a handle, it is the
\* owner of the handle's lock, and while it is inside no step of another task
\* changes the stream or the handle's state, neither between drop_prefix's
\* truncation, length check and deletion nor between the appends of a commit.
C10_MutualExclusion ==
    /\ [](\A h \in HandleIds :
            handles[h].live =>
               /\ Cardinality({t \in Tasks : held[t] = h /\ pc[t] \in InsidePcs}) <= 1
               /\ \A t \in Tasks :
                     held[t] = h /\ pc[t] \in InsidePcs <=> handles[h].lock = t)
    /\ [][\A h \in HandleIds : \A o \in Tasks :
             handles[h].lock = o /\ pc'[o] = pc[o] /\ pos'[o] = pos[o] =>
                stream' = stream /\ handles'[h] = handles[h]
       ]_vars

\* a task is between drop_prefix's length check and its delete while another
\* task holds the same handle and is free to call
C10_Witness ==
    \E t, u \in Tasks :
        /\ t # u
        /\ pc[t] = "drop_prefix_delete"
        /\ held[u] = held[t]
        /\ pc[u] = "idle"

NoGaps ==
    LET present == StorageIndices(stream) IN
    present # {} => present = SetMin(present)..SetMax(present)

\* C2: in every reachable state of the worker's stream, under any sequence of
\* create / open / delete of the service and add / commit / drop_prefix / drop
\* of handles, the committed indices have no gap between the first and the
\* last, and an entry committed at an index is never replaced by a different
\* entry at that index.
C2_NoGapsImmutable ==
    /\ []NoGaps
    /\ [][\A i \in 1..MaxIdx :
             stream.entries[i] # Absent /\ stream'.entries[i] # Absent =>
                stream'.entries[i] = stream.entries[i]
       ]_vars

LiveHandles == {h \in HandleIds : handles[h].live}

\* C3: while a handle returned by open or create is live, every further open
\* returns that same handle; two distinct live oplog instances never exist
\* for the worker; the registry slot is removed only when the last holder
\* drops the handle.
C3_SingleLiveOplog ==
    /\ [](/\ Cardinality(LiveHandles) <= 1
          /\ \A t \in Tasks :
                held[t] # NoHandle => handles[held[t]].live /\ oplogs = held[t])
    /\ [][/\ \A t, u \in Tasks :
                /\ pc[t] \in {"open_get_or_open", "create_get_or_open"}
                /\ pc'[t] = "idle"
                /\ held[u] # NoHandle
                => held'[t] = held[u] /\ res'.num = held[u]
          /\ oplogs # NoHandle /\ oplogs' # oplogs =>
                /\ \E t \in Tasks : DropHandle(t)
                /\ \A t \in Tasks : held'[t] = NoHandle
       ]_vars

\* an open has just returned the handle another task already holds
C3_Witness ==
    /\ res.op = "open" /\ res.out = "ok"
    /\ held["t1"] # NoHandle
    /\ held["t1"] = held["t2"]
    /\ res.num = held["t1"]

\* C4: create fails fatally, writing nothing, whenever the worker's stream
\* exists; otherwise it writes the initial entry at index 1 and returns the
\* handle of open; after a successful create the stream exists, so a create
\* that follows it fails.
C4_CreateContract ==
    [][\A t \in Tasks :
        /\ \A e \in OplogEntries :
              CreateExists(t, e) =>
                 IF StorageExists(stream)
                 THEN /\ res' = Result("create", "panic_exists", 0, Absent)
                      /\ pc'[t] = "idle"
                      /\ stream' = stream
                      /\ held' = held /\ handles' = handles /\ oplogs' = oplogs
                 ELSE pc'[t] = "create_append" /\ arg'[t].e = e /\ stream' = stream
        /\ pc[t] = "create_append" /\ pc'[t] # pc[t] =>
              /\ pc'[t] = "create_open"
              /\ stream'.entries[1] = arg[t].e
              /\ StorageIndices(stream') = {1}
              /\ StorageExists(stream')
        /\ pc[t] = "create_open" /\ pc'[t] # pc[t] => pc'[t] = "create_get_or_open"
        /\ pc[t] = "create_get_or_open" /\ pc'[t] # pc[t] =>
              /\ pc'[t] = "idle"
              /\ held'[t] # NoHandle /\ held'[t] = oplogs'
              /\ res' = Result("create", "ok", held'[t], Absent)
              /\ StorageExists(stream') /\ stream'.entries[1] = arg[t].e
    ]_vars

\* a create was refused because the stream written by an earlier create exists
C4_Witness ==
    /\ res = Result("create", "panic_exists", 0, Absent)
    /\ stream.entries[1] # Absent
    /\ AllIdle

\* C5: of two concurrent creates the loser fails with the already-exists
\* failure (the panic of the existence check), whatever the interleaving of
\* the two existence checks and the two initial writes.
C5_LoserSeesAlreadyExists ==
    res.op = "create" /\ res.out # "ok" => res.out = "panic_exists"

\* C8: for a committed index k that has not been truncated, read(k) returns
\* the entry committed at k and changes nothing, however often it is called;
\* no step changes an entry that stays in the stream, and dropping the handle
\* and reopening the oplog leave the stream as it is, so the same entry is
\* read after a restart.
C8_ReadIsStable ==
    [][/\ \A t \in Tasks : \A k \in 1..MaxIdx :
             Read(t, k) /\ stream.entries[k] # Absent =>
                /\ res' = Result("read", "ok", k, stream.entries[k])
                /\ UNCHANGED <<stream, handles, oplogs, held>>
       /\ \A i \in 1..MaxIdx :
             stream.entries[i] # Absent /\ stream'.entries[i] # Absent =>
                stream'.entries[i] = stream.entries[i]
       /\ \A t \in Tasks :
             DropHandle(t) \/ OpenGetLastIndex(t) \/ OpenGetOrOpen(t) =>
                stream' = stream
       /\ \A t \in Tasks :
             pc[t] = "open_get_or_open" /\ pc'[t] = "idle" =>
                handles'[held'[t]].last_committed_idx = GetLastIndex(stream)
    ]_vars

\* read(2) has returned an entry through a handle opened after the first
\* handle (id 1) was dropped
C8_Witness ==
    /\ held["t1"] = 2
    /\ res.op = "read" /\ res.out = "ok" /\ res.num = 2 /\ res.ent # Absent
    /\ stream.entries[2] = res.ent

\* some, but not all, entries of a batch being committed are in the stream
PartialBatch ==
    \E t \in Tasks :
        /\ pc[t] \in AppendPcs
        /\ Len(entries[t]) > 1
        /\ 0 < pos[t] /\ pos[t] < Len(entries[t])

\* C9: a commit of a batch of more than one entry is atomic: no call of
\* OplogService::read or get_last_index (which take no lock) observes the
\* stream while some but not all entries of the batch are in it.
C9_CommitIsAtomic ==
    [][\A u \in Tasks :
          SvcGetLastIndex(u) \/ (\E k \in 1..2, n \in 1..2 : SvcRead(u, k, n)) => ~PartialBatch
    ]_vars

\* C11: an upload that returns a payload returns Inline(data) exactly when
\* |data| <= max_payload_size and External{payload_id, md5(data)} exactly when
\* |data| > max_payload_size; the inline case never reaches the blob storage,
\* the external case writes one blob, holding data, at the payload's path, and
\* an upload fails only when that write does.
C11_UploadSplitsAtMaxPayloadSize ==
    /\ [](payload_res.op = "upload" =>
            LET data == payload_res.data
                payload == payload_res.payload
            IN /\ payload_res.out = "ok" /\ Len(data) <= max_payload_size =>
                     payload = Inline(data)
               /\ payload_res.out = "ok" /\ Len(data) > max_payload_size =>
                     /\ payload.kind = "External"
                     /\ payload.md5_hash = Md5(data)
                     /\ payload.payload_id \in PayloadIds
                     /\ blobs[PayloadPath(Md5(data), payload.payload_id)] = SomeBlob(data)
               /\ payload_res.out # "ok" => Len(data) > max_payload_size)
    /\ [][/\ \A t \in Tasks : \A data \in Data :
               UploadPayload(t, data) =>
                  /\ blobs' = blobs
                  /\ IF Len(data) <= max_payload_size
                     THEN /\ payload_call'.pc = "idle"
                          /\ payload_res' =
                                PayloadResult("upload", data, NoPayload, "ok", Inline(data), <<>>)
                     ELSE payload_call'.pc = "upload_put" /\ payload_res' = payload_res
          /\ UploadPut =>
               LET path == PayloadPath(payload_call.payload.md5_hash,
                                       payload_call.payload.payload_id)
               IN /\ \A other \in AllPaths \ {path} : blobs'[other] = blobs[other]
                  /\ payload_res'.out = "ok" => blobs'[path] = SomeBlob(payload_call.data)
                  /\ payload_res'.out # "ok" => blobs' = blobs
       ]_vars

\* an upload of max_payload_size + 1 bytes has returned an External payload
\* and its blob is stored
C11_Witness ==
    /\ payload_res.op = "upload" /\ payload_res.out = "ok"
    /\ payload_res.payload.kind = "External"
    /\ Len(payload_res.data) = max_payload_size + 1
    /\ max_payload_size >= 1
    /\ blobs[PayloadPath(payload_res.payload.md5_hash, payload_res.payload.payload_id)]
          = SomeBlob(payload_res.data)
    /\ payload_call.pc = "idle"

\* the last finished payload call is an upload that returned a payload
Uploaded == payload_res.op = "upload" /\ payload_res.out = "ok"

\* C12: downloading the payload an upload has just returned gives back the
\* uploaded bytes (inline: the copy; external: the blob read at the path the
\* upload wrote), unless the blob storage fails the read; downloading an
\* External payload whose blob is absent answers payload-not-found and no bytes.
C12_DownloadInvertsUpload ==
    [][/\ \A t \in Tasks : \A payload \in Payloads :
             DownloadPayload(t, payload) /\ Uploaded /\ payload = payload_res.payload
             /\ payload.kind = "Inline" =>
                /\ payload_res'.op = "download" /\ payload_res'.out = "ok"
                /\ payload_res'.bytes = payload_res.data
       /\ DownloadGet /\ Uploaded /\ payload_call.payload = payload_res.payload
             /\ payload_res'.out # "err" =>
                /\ payload_res'.op = "download" /\ payload_res'.out = "ok"
                /\ payload_res'.bytes = payload_res.data
       /\ DownloadGet /\ payload_res'.out # "err"
             /\ blobs[PayloadPath(payload_call.payload.md5_hash,
                                  payload_call.payload.payload_id)] = NoBlob =>
                /\ payload_res'.out = "not_found"
                /\ payload_res'.bytes = <<>>
    ]_vars

\* a download of an External payload has returned two bytes whose digest is
\* the payload's
C12_Witness ==
    /\ payload_res.op = "download" /\ payload_res.out = "ok"
    /\ payload_res.arg.kind = "External"
    /\ Len(payload_res.bytes) = 2
    /\ Md5(payload_res.bytes) = payload_res.arg.md5_hash
    /\ payload_res.bytes[1] # payload_res.bytes[2]

\* C13: wait_for_replicas commits every staged entry before it asks the
\* backend: while it waits for the answer, and when it returns, the buffer is
\* empty and last_committed_idx = last_oplog_idx; it asks about
\* min(n, configured replicas) and returns true exactly when the backend
\* reports that number.
C13_WaitCommitsThenAsksClamped ==
    /\ [](\A t \in Tasks :
            pc[t] = "wait_storage" =>
               LET st == handles[held[t]] IN
               /\ st.buffer = <<>>
               /\ entries[t] = <<>>
               /\ st.last_committed_idx = st.last_oplog_idx)
    /\ [][\A t \in Tasks :
            /\ \A n \in 1..(Replicas + 1) :
                  WaitForReplicasBegin(t, n) =>
                     /\ entries'[t] = handles[held[t]].buffer
                     /\ pc'[t] = (IF handles[held[t]].buffer = <<>>
                                  THEN "wait_storage" ELSE "wait_append")
                     /\ stream' = stream
            /\ \A reported \in 0..Replicas : \A ok \in BOOLEAN :
                  WaitForReplicasAnswer(t, reported, ok) =>
                     LET st == handles'[held[t]] IN
                     /\ res'.op = "wait_for_replicas"
                     /\ res'.num = Min(arg[t].n, Replicas)
                     /\ res'.out = "true" <=> (ok /\ reported = Min(arg[t].n, Replicas))
                     /\ res'.out \in {"true", "false"}
                     /\ st.buffer = <<>>
                     /\ st.last_committed_idx = st.last_oplog_idx
       ]_vars

\* a wait_for_replicas asked for more than the configured replicas has written
\* the entry staged by the add before it and now waits for the backend
C13_Witness ==
    \E t \in Tasks :
        /\ pc[t] = "wait_storage"
        /\ arg[t].n > Replicas
        /\ res = Result("add", "ok", 0, Absent)
        /\ handles[held[t]].buffer = <<>>
        /\ handles[held[t]].last_committed_idx >= 2

\* C14: once wait_for_replicas has returned true for n replicas, the next call
\* with n' <= n returns true, whenever the backend answers with a count that
\* is at least the number it confirmed before.
C14_WaitIsMonotone ==
    [][\A t \in Tasks : \A reported \in 0..Replicas :
          /\ WaitForReplicasAnswer(t, reported, TRUE)
          /\ res.op = "wait_for_replicas" /\ res.out = "true"
          /\ arg[t].n <= res.num
          /\ reported >= res.num
          => res'.out = "true"
    ]_vars

\* C15: when the backend confirms fewer replicas than asked for, or answers
\* the wait with an error, wait_for_replicas returns false: the call ends
\* normally, the lock is released, the handle stays live and held, and
\* neither the stream nor the handle's indices change.
C15_TimeoutReturnsFalse ==
    [][\A t \in Tasks : \A reported \in 0..Replicas : \A ok \in BOOLEAN :
          /\ WaitForReplicasAnswer(t, reported, ok)
          /\ (~ok \/ reported < Min(arg[t].n, Replicas))
          => /\ res' = Result("wait_for_replicas", "false", Min(arg[t].n, Replicas), Absent)
             /\ pc'[t] = "idle"
             /\ held' = held
             /\ stream' = stream
             /\ handles' = [handles EXCEPT ![held[t]].lock = NoTask]
             /\ handles'[held[t]].live
    ]_vars

\* a wait_for_replicas has returned false and its caller still holds the
\* live, unlocked handle
C15_Witness ==
    /\ res.op = "wait_for_replicas" /\ res.out = "false" /\ res.num = Replicas
    /\ AllIdle
    /\ \E t \in Tasks :
          /\ held[t] # NoHandle
          /\ handles[held[t]].live
          /\ handles[held[t]].lock = NoTask

\* the committed entries of the stream with index <= k
UpTo(k) == {i \in StorageIndices(stream) : i <= k}

\* C16: drop_prefix(k) erases exactly the committed entries with index <= k:
\* the entries above k are unchanged, the length drops by the number of
\* entries removed, the first index of what remains is above k, and when
\* nothing remains the stream is deleted before drop_prefix returns (it no
\* longer exists, and first and last index read as 0); otherwise the
\* truncated stream is left as it is.
C16_DropPrefixErasesUpToK ==
    /\ [](\A t \in Tasks :
            pc[t] = "drop_prefix_delete" => StorageLength(stream) = 0)
    /\ [][\A t \in Tasks :
            /\ \A k \in 1..MaxIdx :
                  DropPrefix(t, k) =>
                     /\ \A i \in 1..MaxIdx :
                           stream'.entries[i] = (IF i <= k THEN Absent ELSE stream.entries[i])
                     /\ StorageLength(stream') = StorageLength(stream) - Cardinality(UpTo(k))
                     /\ StorageLength(stream') > 0 => GetFirstIndex(stream') > k
                     /\ pc'[t] = "drop_prefix_length"
            /\ pc[t] = "drop_prefix_length" /\ pc'[t] # pc[t] =>
                  /\ stream' = stream
                  /\ pc'[t] = (IF StorageLength(stream) = 0 THEN "drop_prefix_delete" ELSE "idle")
            /\ pc[t] = "drop_prefix_delete" /\ pc'[t] # pc[t] =>
                  /\ pc'[t] = "idle"
                  /\ ~StorageExists(stream')
                  /\ GetFirstIndex(stream') = 0 /\ GetLastIndex(stream') = 0
            /\ pc[t] \in {"drop_prefix_length", "drop_prefix_delete"} /\ pc'[t] = pc[t] =>
                  stream' = stream
       ]_vars

\* a drop_prefix that removed everything committed has deleted the stream of
\* a handle that had committed up to index 2 or more
C16_Witness ==
    /\ res = Result("drop_prefix", "ok", 1, Absent)
    /\ AllIdle
    /\ ~StorageExists(stream)
    /\ \E h \in HandleIds : handles[h].live /\ handles[h].last_committed_idx >= 2

\* ------------------------------------------------ Worker::set_interrupting
\* broadcast channels no Receiver refers to
FreeChannels == {c \in ChannelIds : \A w \in WaiterIds : receivers[w].chan # c}

FreeWaiters == {w \in WaiterIds : receivers[w] = NoReceiver}

BlockedOn(chan) == {w \in WaiterIds : receivers[w] = [chan |-> chan, state |-> "blocked"]}

SetInterruptingStatusSkipsInterrupting(status, interrupt_kind, sender) ==
    CASE status.state \in {"Running", "Suspended"} -> Interrupted(interrupt_kind)
      [] OTHER -> status

SetInterruptingStatusLastKindWins(status, interrupt_kind, sender) ==
    CASE status.state = "Running" -> Interrupting(interrupt_kind, sender)
      [] status.state = "Suspended" -> Interrupted(interrupt_kind)
      [] status.state = "Interrupting" -> Interrupting(interrupt_kind, status.await_interruption)
      [] OTHER -> Interrupted(interrupt_kind)

\* what *execution_status is when set_interrupting returns, lines 295-315
SetInterruptingStatus(status, interrupt_kind, sender) ==
    CASE status.state = "Running" -> Interrupting(interrupt_kind, sender)
      [] status.state = "Suspended" -> Interrupted(interrupt_kind)
      [] OTHER -> status

SetInterruptingReceiverOfNewChannel(status, sender) ==
    CASE status.state = "Running" -> sender
      [] status.state = "Interrupting" ->
            SetMin(ChannelIds \ {status.await_interruption})
      [] OTHER -> NoChannel

\* the channel of the Receiver set_interrupting returns (NoChannel: None)
SetInterruptingReceiver(status, sender) ==
    CASE status.state = "Running" -> sender
      [] status.state = "Interrupting" -> status.await_interruption
      [] OTHER -> NoChannel

\* set_interrupting, the whole call under execution_status.write()
SetInterrupting(interrupt_kind) ==
    LET sender == IF FreeChannels # {} THEN SetMin(FreeChannels) ELSE NoChannel
        receiver == SetInterruptingReceiver(execution_status, sender)
    IN  /\ execution_status.state = "Running" => FreeChannels # {}
        /\ receiver # NoChannel => FreeWaiters # {}
        /\ execution_status' =
              SetInterruptingStatus(execution_status, interrupt_kind, sender)
        /\ IF receiver # NoChannel
              THEN LET w == SetMin(FreeWaiters)
                   IN  /\ receivers' = [receivers EXCEPT
                                           ![w] = [chan |-> receiver, state |-> "blocked"]]
                       /\ interrupt_ret' = [op |-> "set_interrupting",
                                            kind |-> interrupt_kind, some |-> TRUE,
                                            waiter |-> w, chan |-> receiver]
              ELSE /\ receivers' = receivers
                   /\ interrupt_ret' = [op |-> "set_interrupting",
                                        kind |-> interrupt_kind, some |-> FALSE,
                                        waiter |-> 0, chan |-> NoChannel]
        /\ UNCHANGED <<oplogVars, payloadVars, laterVars>>

\* ---- the rest of the status machine
\* an invocation starts on a suspended worker
InvocationStarts ==
    /\ execution_status = Suspended
    /\ execution_status' = Running
    /\ UNCHANGED <<receivers, interrupt_ret, oplogVars, payloadVars, laterVars>>

\* the invocation returns before anyone interrupted it
InvocationFinishes ==
    /\ execution_status = Running
    /\ execution_status' = Suspended
    /\ UNCHANGED <<receivers, interrupt_ret, oplogVars, payloadVars, laterVars>>

\* the epoch callback finds the pending interrupt and aborts the guest; the
\* worker becomes Interrupted and the broadcast releases every subscriber
EpochInterrupt ==
    /\ execution_status.state = "Interrupting"
    /\ execution_status' = Interrupted(execution_status.interrupt_kind)
    /\ receivers' = [w \in WaiterIds |->
                       IF w \in BlockedOn(execution_status.await_interruption)
                          THEN [receivers[w] EXCEPT !.state = "woken"]
                          ELSE receivers[w]]
    /\ UNCHANGED <<interrupt_ret, oplogVars, payloadVars, laterVars>>

\* resume: the interrupted worker is suspended again, ready to be invoked
Resume ==
    /\ execution_status.state = "Interrupted"
    /\ execution_status' = Suspended
    /\ UNCHANGED <<receivers, interrupt_ret, oplogVars, payloadVars, laterVars>>

\* a caller's recv() has returned and it drops its Receiver
WaiterReturns(w) ==
    /\ receivers[w].state = "woken"
    /\ receivers' = [receivers EXCEPT ![w] = NoReceiver]
    /\ UNCHANGED <<execution_status, interrupt_ret, oplogVars, payloadVars, laterVars>>

NextInterrupt ==
    \/ \E interrupt_kind \in InterruptKinds : SetInterrupting(interrupt_kind)
    \/ InvocationStarts
    \/ InvocationFinishes
    \/ EpochInterrupt
    \/ Resume
    \/ \E w \in WaiterIds : WaiterReturns(w)

SpecInterrupt == Init /\ [][NextInterrupt]_vars

\* epoch ticks are periodic: a pending interrupt is observed
SpecInterruptFair == Init /\ [][NextInterrupt]_vars /\ WF_vars(EpochInterrupt)

\* ------------------------------------------------ epoch deadline callback
\* ctx.is_out_of_fuel(current_level)
IsOutOfFuel(current_level) == current_level <= 0

\* ctx.borrow_fuel_sync(): takes what the account can lend, up to a full tank
BorrowFuelSync(st) ==
    LET amount == Min(st.account, MaxFuel - st.fuel_remaining)
    IN  [st EXCEPT !.fuel_remaining = st.fuel_remaining + amount,
                   !.account = st.account - amount,
                   !.borrowed = TRUE]

\* ctx.check_interrupt(): the kind of the interrupt pending in ExecutionStatus
CheckInterrupt(status) ==
    IF status.state \in {"Interrupting", "Interrupted"} THEN status.interrupt_kind
                                                         ELSE NoKind

EpochCallbackResultBorrowSkipsCheck(out_of_fuel, status) ==
    IF out_of_fuel /\ store.account > 0
       THEN EpochYield(1)
       ELSE IF CheckInterrupt(status) # NoKind THEN EpochErr(CheckInterrupt(status))
                                               ELSE EpochYield(1)

\* match store.data_mut().check_interrupt() { Some(kind) => Err, None => Yield(1) }
EpochCallbackResult(out_of_fuel, status) ==
    IF CheckInterrupt(status) # NoKind THEN EpochErr(CheckInterrupt(status))
                                       ELSE EpochYield(1)

EpochFrame == UNCHANGED <<oplogVars, payloadVars, cacheVars, hostVars, routingVars, findVars,
                          fsVars, scanVars, fanOutVars, newVars, grpcVars, backendVars>>

\* the closure given to store.epoch_deadline_callback, run at an epoch tick
\* while the guest executes
EpochDeadlineCallback ==
    LET current_level == store.fuel_remaining
        out_of_fuel == IsOutOfFuel(current_level)
        st == IF out_of_fuel THEN BorrowFuelSync(store)
                             ELSE [store EXCEPT !.borrowed = FALSE]
        ret == EpochCallbackResult(out_of_fuel, execution_status)
    IN  /\ store.guest = "executing"
        /\ store' = [st EXCEPT !.epoch_ret = ret,
                               !.guest = IF ret.tag = "Err" THEN "trapped" ELSE "executing"]
        /\ UNCHANGED interruptVars
        /\ EpochFrame

\* an invocation starts: the guest executes
GuestStarts ==
    /\ execution_status = Suspended
    /\ store.guest = "idle"
    /\ execution_status' = Running
    /\ store' = [store EXCEPT !.guest = "executing", !.epoch_ret = NoEpochRet,
                              !.borrowed = FALSE]
    /\ UNCHANGED <<receivers, interrupt_ret>>
    /\ EpochFrame

\* the guest returns from the invocation between two ticks
GuestReturns ==
    /\ execution_status = Running
    /\ store.guest = "executing"
    /\ execution_status' = Suspended
    /\ store' = [store EXCEPT !.guest = "idle"]
    /\ UNCHANGED <<receivers, interrupt_ret>>
    /\ EpochFrame

\* guest instructions consume fuel
GuestBurnsFuel ==
    /\ store.guest = "executing"
    /\ store.fuel_remaining > 0
    /\ store' = [store EXCEPT !.fuel_remaining = store.fuel_remaining - 1]
    /\ UNCHANGED interruptVars
    /\ EpochFrame

\* other workers of the account use up, or a top-up restores, the account's fuel
AccountChanges ==
    /\ \E a \in 0..MaxFuel :
          /\ a # store.account
          /\ store' = [store EXCEPT !.account = a]
    /\ UNCHANGED interruptVars
    /\ EpochFrame

\* the trap raised by the callback unwinds the invocation: the worker is
\* Interrupted and the subscribers of the broadcast are released
TrapUnwinds ==
    /\ store.guest = "trapped"
    /\ execution_status' = Interrupted(store.epoch_ret.kind)
    /\ receivers' = [w \in WaiterIds |->
                       IF w \in BlockedOn(execution_status.await_interruption)
                          THEN [receivers[w] EXCEPT !.state = "woken"]
                          ELSE receivers[w]]
    /\ store' = [store EXCEPT !.guest = "idle"]
    /\ UNCHANGED interrupt_ret
    /\ EpochFrame

NextEpoch ==
    \/ \E interrupt_kind \in InterruptKinds : SetInterrupting(interrupt_kind)
    \/ GuestStarts
    \/ GuestReturns
    \/ GuestBurnsFuel
    \/ AccountChanges
    \/ EpochDeadlineCallback
    \/ TrapUnwinds
    \/ Resume
    \/ \E w \in WaiterIds : WaiterReturns(w)

SpecEpoch == Init /\ [][NextEpoch]_vars

\* epoch ticks are periodic: the callback runs while the guest executes
SpecEpochFair == Init /\ [][NextEpoch]_vars /\ WF_vars(EpochDeadlineCallback)

\* ------------------------------------------------ Worker::get_or_create
CacheFrame == UNCHANGED <<oplogVars, payloadVars, interruptVars, epochVars, hostVars, routingVars,
                          findVars, fsVars, scanVars, fanOutVars, newVars, grpcVars, backendVars>>

\* the construction a call that starts now shares or starts
BuildOfSlotIgnoresPending(slot) ==
    IF slot.state = "cached" THEN slot.build ELSE Len(builds) + 1

BuildOfSlot(slot) ==
    IF slot.state = "empty" THEN Len(builds) + 1 ELSE slot.build

\* Worker::new is started by this call: the pending future of the slot
StartsBuild(c, worker_args, worker_env, template_version) ==
    /\ Len(builds) < MaxConstructions
    /\ builds' = Append(builds,
                    [state |-> "template",
                     metadata |-> WorkerMetadata(worker_args, worker_env, template_version)])
    /\ active_workers' = [state |-> "pending", build |-> Len(builds) + 1]

\* get_or_create up to the await of active_workers().get_with
GetOrCreate(c, worker_args, worker_env, template_version) ==
    LET build == BuildOfSlot(active_workers)
    IN  /\ callers[c].pc = "idle"
        /\ callers' = [callers EXCEPT ![c] =
              [pc |-> "awaiting", op |-> "get_or_create", worker_args |-> worker_args,
               worker_env |-> worker_env, template_version |-> template_version,
               build |-> build, out |-> NoOut]]
        /\ IF build > Len(builds)
              THEN StartsBuild(c, worker_args, worker_env, template_version)
              ELSE UNCHANGED <<active_workers, builds>>
        /\ UNCHANGED worker_service
        /\ CacheFrame

GetOrCreatePendingValidates(c, worker_args, worker_env, template_version) ==
    LET build == BuildOfSlot(active_workers)
    IN  /\ callers[c].pc = "idle"
        /\ callers' = [callers EXCEPT ![c] =
              [pc |-> "done", op |-> "get_or_create_pending", worker_args |-> "-",
               worker_env |-> "-", template_version |-> NoVersion,
               build |-> build,
               out |-> IF active_workers.state # "cached" THEN OutPending(build)
                       ELSE IF \/ builds[build].metadata.args # worker_args
                               \/ builds[build].metadata.env # worker_env
                               \/ /\ template_version # NoVersion
                                  /\ builds[build].metadata.template_version # template_version
                               THEN OutErr("WorkerCreationFailed")
                               ELSE OutFinal(build)]]
        /\ IF build > Len(builds)
              THEN StartsBuild(c, worker_args, worker_env, template_version)
              ELSE UNCHANGED <<active_workers, builds>>
        /\ UNCHANGED worker_service
        /\ CacheFrame

\* get_or_create_pending: get_pending_with answers at once
GetOrCreatePending(c, worker_args, worker_env, template_version) ==
    LET build == BuildOfSlot(active_workers)
    IN  /\ callers[c].pc = "idle"
        /\ callers' = [callers EXCEPT ![c] =
              [pc |-> "done", op |-> "get_or_create_pending", worker_args |-> "-",
               worker_env |-> "-", template_version |-> NoVersion,
               build |-> build,
               out |-> IF active_workers.state = "cached" THEN OutFinal(build)
                                                          ELSE OutPending(build)]]
        /\ IF build > Len(builds)
              THEN StartsBuild(c, worker_args, worker_env, template_version)
              ELSE UNCHANGED <<active_workers, builds>>
        /\ UNCHANGED worker_service
        /\ CacheFrame

\* a step of Worker::new fails: the error is the construction's result and
\* the slot is free again
BuildFails(b) ==
    /\ builds' = [builds EXCEPT ![b] = [state |-> "err", metadata |-> NoMetadata]]
    /\ active_workers' = IF active_workers = [state |-> "pending", build |-> b]
                            THEN EmptySlot ELSE active_workers

\* Worker::new, lines 48-60: template_service().get / get_latest
NewGetsTemplate(b) ==
    /\ b \in 1..Len(builds)
    /\ builds[b].state = "template"
    /\ \/ /\ builds' = [builds EXCEPT
                           ![b].state = "add",
                           ![b].metadata.template_version =
                               IF builds[b].metadata.template_version = NoVersion
                                  THEN LatestVersion
                                  ELSE builds[b].metadata.template_version]
          /\ UNCHANGED active_workers
       \/ BuildFails(b)
    /\ UNCHANGED <<callers, worker_service>>
    /\ CacheFrame

\* Worker::new, line 75: worker_service().add(&worker_metadata)
NewAddsMetadata(b) ==
    /\ b \in 1..Len(builds)
    /\ builds[b].state = "add"
    /\ \/ /\ worker_service' = Append(worker_service, builds[b].metadata)
          /\ builds' = [builds EXCEPT ![b].state = "instantiate"]
          /\ UNCHANGED active_workers
       \/ BuildFails(b) /\ UNCHANGED worker_service
    /\ UNCHANGED callers
    /\ CacheFrame

\* Worker::new, lines 77-148: context, store, instance; Ok(result) is cached
NewInstantiates(b) ==
    /\ b \in 1..Len(builds)
    /\ builds[b].state = "instantiate"
    /\ \/ /\ builds' = [builds EXCEPT ![b].state = "ok"]
          /\ active_workers' = IF active_workers = [state |-> "pending", build |-> b]
                                  THEN [state |-> "cached", build |-> b]
                                  ELSE active_workers
       \/ BuildFails(b)
    /\ UNCHANGED <<callers, worker_service>>
    /\ CacheFrame

ValidateWorkerIgnoresEnv(worker_metadata, worker_args, worker_env, template_version) ==
    \/ worker_metadata.args # worker_args
    \/ /\ template_version # NoVersion
       /\ worker_metadata.template_version # template_version

\* validate_worker, lines 347-385: TRUE when errors is not empty
ValidateWorker(worker_metadata, worker_args, worker_env, template_version) ==
    \/ worker_metadata.args # worker_args
    \/ worker_metadata.env # worker_env
    \/ /\ template_version # NoVersion
       /\ worker_metadata.template_version # template_version

\* get_or_create after the await: `?` on the construction's result, then
\* validate_worker and the return
GetOrCreateReturns(c) ==
    LET b == callers[c].build
    IN  /\ callers[c].pc = "awaiting"
        /\ builds[b].state \in {"ok", "err"}
        /\ callers' = [callers EXCEPT
              ![c].pc = "done",
              ![c].worker_args = "-",
              ![c].worker_env = "-",
              ![c].template_version = NoVersion,
              ![c].out =
                 IF builds[b].state = "err" THEN OutErr("construction")
                 ELSE IF ValidateWorker(builds[b].metadata, callers[c].worker_args,
                                        callers[c].worker_env, callers[c].template_version)
                         THEN OutErr("WorkerCreationFailed")
                         ELSE OutOk(b)]
        /\ UNCHANGED <<active_workers, builds, worker_service>>
        /\ CacheFrame

\* the caller is free for its next call
CallerDone(c) ==
    /\ callers[c].pc = "done"
    /\ callers' = [callers EXCEPT ![c] = IdleCaller]
    /\ UNCHANGED <<active_workers, builds, worker_service>>
    /\ CacheFrame

\* the cache evicts the worker
Evict ==
    /\ active_workers.state = "cached"
    /\ active_workers' = EmptySlot
    /\ UNCHANGED <<builds, callers, worker_service>>
    /\ CacheFrame

NextCache ==
    \/ \E c \in Callers, worker_args \in WorkerArgs, worker_env \in WorkerEnvs,
          template_version \in {NoVersion} \cup TemplateVersions :
            \/ GetOrCreate(c, worker_args, worker_env, template_version)
            \/ GetOrCreatePending(c, worker_args, worker_env, template_version)
    \/ \E b \in 1..MaxConstructions :
            \/ NewGetsTemplate(b)
            \/ NewAddsMetadata(b)
            \/ NewInstantiates(b)
    \/ \E c \in Callers : GetOrCreateReturns(c) \/ CallerDone(c)
    \/ Evict

InitCache == Init /\ max_operations_before_commit = 0

SpecCache == InitCache /\ [][NextCache]_vars

\* ------------------------------------------------ durable host functions
HostFrame == UNCHANGED <<oplogVars, payloadVars, interruptVars, epochVars, cacheVars,
                         routingVars, findVars, fsVars, scanVars, fanOutVars, newVars, grpcVars,
                         backendVars>>

\* what the real host can answer
RealOutcomes(function_name) ==
    IF function_name = "monotonic_clock::now"
       THEN {OkInstant(golem_ctx.clock), ErrInstant}
       ELSE {OkInstant(1), ErrInstant}

\* the functions of the two impls that call Durability::wrap
IsWrapped(function_name) == function_name \in ClockFunctions

DurabilityWrapReplayCallsHost(ctx, function_name, real) ==
    IF ctx.mode = "replay"
       THEN [ctx |-> [ctx EXCEPT !.replay_idx = ctx.replay_idx + 1,
                                 !.mode = IF ctx.replay_idx + 1 = Len(ctx.oplog)
                                             THEN "live" ELSE "replay"],
             outcome |-> real, real |-> TRUE, journalled |-> FALSE]
       ELSE [ctx |-> [ctx EXCEPT !.oplog =
                         Append(ctx.oplog, ImportedFunctionInvoked(function_name, real))],
             outcome |-> real, real |-> TRUE, journalled |-> TRUE]

\* Durability::wrap with WrappedFunctionType::ReadLocal: in replay mode the
\* next ImportedFunctionInvoked entry is the result; in live mode the real
\* host is called and its outcome appended (the commit may come later)
DurabilityWrap(ctx, function_name, real) ==
    IF ctx.mode = "replay"
       THEN [ctx |-> [ctx EXCEPT !.replay_idx = ctx.replay_idx + 1,
                                 !.mode = IF ctx.replay_idx + 1 = Len(ctx.oplog)
                                             THEN "live" ELSE "replay"],
             outcome |-> ctx.oplog[ctx.replay_idx + 1].outcome,
             real |-> FALSE, journalled |-> FALSE]
       ELSE [ctx |-> [ctx EXCEPT !.oplog =
                         Append(ctx.oplog, ImportedFunctionInvoked(function_name, real))],
             outcome |-> real, real |-> TRUE, journalled |-> TRUE]

\* the call can be made now: the journal has room, and a replaying guest,
\* being deterministic, repeats the call the next entry was written by
CanWrap(function_name) ==
    IF golem_ctx.mode = "replay"
       THEN golem_ctx.oplog[golem_ctx.replay_idx + 1].fn = function_name
       ELSE Len(golem_ctx.oplog) < MaxJournal

\* index of the entry a wrapped call made now reads or writes
EntryOfCall == IF golem_ctx.mode = "replay" THEN golem_ctx.replay_idx + 1
                                            ELSE Len(golem_ctx.oplog) + 1

\* Host::now and Host::resolution, lines 14-34
ClockRead(function_name) ==
    /\ host_call.pc = "idle"
    /\ CanWrap(function_name)
    /\ \E real \in RealOutcomes(function_name) :
          LET w == DurabilityWrap(golem_ctx, function_name, real)
          IN  /\ golem_ctx' = w.ctx
              /\ guest' = [guest EXCEPT !.trace =
                              Append(guest.trace, ImportedFunctionInvoked(function_name, w.outcome))]
              /\ host_call' = [NoHostCall EXCEPT !.fn = function_name, !.entry = EntryOfCall,
                                                 !.outcome = w.outcome, !.real = w.real,
                                                 !.journalled = w.journalled]
    /\ UNCHANGED pollables
    /\ HostFrame

\* a function of impl HostTcpSocket, tcp.rs lines 14-237
TcpCall(function_name) ==
    /\ host_call.pc = "idle"
    /\ host_call' = [NoHostCall EXCEPT
                        !.fn = function_name, !.real = TRUE,
                        !.journalled = IsWrapped(function_name) /\ golem_ctx.mode = "live"]
    /\ IF IsWrapped(function_name) /\ golem_ctx.mode = "live"
          THEN /\ Len(golem_ctx.oplog) < MaxJournal
               /\ golem_ctx' = [golem_ctx EXCEPT !.oplog =
                      Append(golem_ctx.oplog, ImportedFunctionInvoked(function_name, OkInstant(0)))]
          ELSE UNCHANGED golem_ctx
    /\ UNCHANGED <<guest, pollables>>
    /\ HostFrame

SaturatingAddWraps(a, b) == (a + b) % (MaxInstant + 1)

\* u64::saturating_add
SaturatingAdd(a, b) == IF a + b > MaxInstant THEN MaxInstant ELSE a + b

\* subscribe_duration, line 43: let now = self.now().await?
SubscribeDurationNow(when) ==
    /\ host_call.pc = "idle"
    /\ CanWrap("monotonic_clock::now")
    /\ \E real \in RealOutcomes("monotonic_clock::now") :
          LET w == DurabilityWrap(golem_ctx, "monotonic_clock::now", real)
          IN  /\ golem_ctx' = w.ctx
              /\ guest' = [guest EXCEPT !.trace =
                    Append(guest.trace,
                           ImportedFunctionInvoked("monotonic_clock::now", w.outcome))]
              /\ host_call' = [pc |-> IF w.outcome.ok THEN "commit_oplog" ELSE "idle",
                               fn |-> "subscribe_duration", when |-> when,
                               now |-> w.outcome.val, entry |-> EntryOfCall,
                               outcome |-> w.outcome, real |-> w.real,
                               journalled |-> w.journalled]
    /\ UNCHANGED pollables
    /\ HostFrame

\* subscribe_duration, line 44: self.commit_oplog().await
SubscribeDurationCommit ==
    /\ host_call.pc = "commit_oplog"
    /\ golem_ctx' = [golem_ctx EXCEPT !.committed = Len(golem_ctx.oplog)]
    /\ host_call' = [host_call EXCEPT !.pc = "subscribe_instant"]
    /\ UNCHANGED <<guest, pollables>>
    /\ HostFrame

\* subscribe_duration, lines 45-46: saturating_add and Host::subscribe_instant
SubscribeDurationSubscribe ==
    /\ host_call.pc = "subscribe_instant"
    /\ Len(pollables) < MaxPollables
    /\ pollables' = Append(pollables,
                       [when |-> host_call.when, entry |-> host_call.entry,
                        deadline |-> SaturatingAdd(host_call.now, host_call.when)])
    /\ host_call' = [host_call EXCEPT !.pc = "idle"]
    /\ UNCHANGED <<golem_ctx, guest>>
    /\ HostFrame

\* the host's monotonic clock
ClockAdvances ==
    /\ golem_ctx.clock < MaxInstant
    /\ golem_ctx' = [golem_ctx EXCEPT !.clock = golem_ctx.clock + 1]
    /\ UNCHANGED <<guest, pollables, host_call>>
    /\ HostFrame

\* a commit of the worker's oplog from elsewhere (ReadLocal defers it)
CommitOplog ==
    /\ golem_ctx.committed < Len(golem_ctx.oplog)
    /\ golem_ctx' = [golem_ctx EXCEPT !.committed = Len(golem_ctx.oplog)]
    /\ UNCHANGED <<guest, pollables, host_call>>
    /\ HostFrame

\* the executor restarts: what was committed is replayed, the rest is gone
Recover ==
    /\ golem_ctx.mode = "live"
    /\ golem_ctx.committed > 0
    /\ golem_ctx' = [golem_ctx EXCEPT !.mode = "replay", !.replay_idx = 0,
                                      !.oplog = SubSeq(golem_ctx.oplog, 1, golem_ctx.committed)]
    /\ guest' = [trace |-> <<>>, original |-> SubSeq(guest.trace, 1, golem_ctx.committed)]
    /\ pollables' = <<>>
    /\ host_call' = NoHostCall
    /\ HostFrame

NextHost ==
    \/ \E function_name \in ClockFunctions : ClockRead(function_name)
    \/ \E when \in Instants : SubscribeDurationNow(when)
    \/ SubscribeDurationCommit
    \/ SubscribeDurationSubscribe
    \/ ClockAdvances
    \/ CommitOplog
    \/ Recover

InitHost == Init /\ max_operations_before_commit = 0

SpecHost == InitHost /\ [][NextHost]_vars

\* ---- a live worker's guest calling the clock and the TCP socket functions
NextSockets ==
    \/ \E function_name \in ClockFunctions : ClockRead(function_name)
    \/ \E function_name \in TcpFunctions : TcpCall(function_name)
    \/ ClockAdvances
    \/ CommitOplog

SpecSockets == InitHost /\ [][NextSockets]_vars

\* ------------------------------------------------ WorkerServiceDefault::create
RoutingFrame == UNCHANGED <<oplogVars, payloadVars, interruptVars, epochVars, cacheVars,
                            hostVars, findVars, fsVars, scanVars, fanOutVars, newVars, grpcVars,
                            backendVars>>

\* create's response mapper, lines 302-310
MapCreateResponse(response) ==
    CASE response = "Success" -> "Ok(worker_id)"
      [] response = "Failure" -> "Err(GolemError)"
      [] OTHER -> "Err(Empty response)"

\* the executor's answer: the owner of the shard serves the request, any
\* other executor rejects it; the connection can fail to either
ResponsesOf(executor) ==
    IF executor = shard_owner THEN ExecutorResponses \cup {"ConnectionFailure"}
                              ELSE RoutingErrors

ShouldRetryNever(response, attempts) == FALSE

\* a routing error is retried while the budget lasts
ShouldRetry(response, attempts) ==
    response \in RoutingErrors /\ attempts < RetryBudget

\* create calls call_worker_executor(worker_id, ...), line 288
CreateStarts ==
    /\ routed_call.pc = "idle"
    /\ routed_call' = [NoRoutedCall EXCEPT !.pc = "resolve"]
    /\ UNCHANGED <<shard_owner, routing_table>>
    /\ RoutingFrame

\* the current routing is fetched unless it is cached
ResolveTarget ==
    /\ routed_call.pc = "resolve"
    /\ routing_table' = IF routing_table = NoExecutor THEN shard_owner ELSE routing_table
    /\ routed_call' = [routed_call EXCEPT !.pc = "invoke", !.sent_to = routing_table']
    /\ UNCHANGED shard_owner
    /\ RoutingFrame

\* the request (lines 290-301) is sent and its response handled
Invoke ==
    /\ routed_call.pc = "invoke"
    /\ \E response \in ResponsesOf(routed_call.sent_to) :
          LET attempts == routed_call.attempts + 1
          IN  IF ShouldRetry(response, attempts)
                 THEN /\ routing_table' = NoExecutor
                      /\ routed_call' = [routed_call EXCEPT
                            !.pc = "backoff", !.attempts = attempts,
                            !.rejected = routed_call.rejected + 1]
                 ELSE /\ routing_table' = IF response \in RoutingErrors
                                             THEN NoExecutor ELSE routing_table
                      /\ routed_call' = [routed_call EXCEPT
                            !.pc = "done", !.attempts = attempts,
                            !.rejected = routed_call.rejected
                                         + (IF response \in RoutingErrors THEN 1 ELSE 0),
                            !.out = IF response \in RoutingErrors
                                       THEN "Err(routing)" ELSE MapCreateResponse(response)]
    /\ UNCHANGED shard_owner
    /\ RoutingFrame

\* the back-off between two attempts is over
BackoffEnds ==
    /\ routed_call.pc = "backoff"
    /\ routed_call' = [routed_call EXCEPT !.pc = "resolve"]
    /\ UNCHANGED <<shard_owner, routing_table>>
    /\ RoutingFrame

\* create returns, line 312 (`?`) or 314
CreateReturns ==
    /\ routed_call.pc = "done"
    /\ routed_call' = [routed_call EXCEPT !.pc = "idle"]
    /\ UNCHANGED <<shard_owner, routing_table>>
    /\ RoutingFrame

\* the fleet reassigns the shard to another executor
ShardMoves ==
    /\ \E e \in Executors \ {shard_owner} : shard_owner' = e
    /\ UNCHANGED <<routing_table, routed_call>>
    /\ RoutingFrame

NextRouting ==
    \/ CreateStarts
    \/ ResolveTarget
    \/ Invoke
    \/ BackoffEnds
    \/ CreateReturns
    \/ ShardMoves

SpecRouting == Init /\ [][NextRouting]_vars

\* the call's own steps are taken: it is an async task that is polled
SpecRoutingFair ==
    Init /\ [][NextRouting]_vars
         /\ WF_vars(ResolveTarget) /\ WF_vars(Invoke) /\ WF_vars(BackoffEnds)

\* ------------------------------------------------ WorkerServiceDefault::find_metadata
FindFrame == UNCHANGED <<oplogVars, payloadVars, interruptVars, epochVars, cacheVars,
                         hostVars, routingVars, fsVars, scanVars, fanOutVars, newVars, grpcVars,
                         backendVars>>

RECURSIVE AnyFilter(_, _)
\* f.filters.iter().any(is_filter_with_running_status), as a fold
AnyFilter(filters, found) ==
    IF filters = <<>> THEN found
    ELSE LET f == Head(filters)
         IN  AnyFilter(Tail(filters),
                found \/ (f.tag = "Status" /\ f.value = "Running" /\ f.comparator = "Equal")
                      \/ (f.tag = "And" /\ AnyFilter(f.filters, FALSE)))

IsFilterWithRunningStatusOnlyInsideAnd(filter) ==
    filter.tag = "And" /\ AnyFilter(filter.filters, FALSE)

\* is_filter_with_running_status, lines 1062-1072
IsFilterWithRunningStatus(filter) ==
    CASE filter.tag = "Status" -> filter.value = "Running" /\ filter.comparator = "Equal"
      [] filter.tag = "And" -> AnyFilter(filter.filters, FALSE)
      [] OTHER -> FALSE

\* result.into_iter().take(count as usize).collect()
Take(workers, count) == SubSeq(workers, 1, Min(count, Len(workers)))

\* what one executor answers to get_running_workers_metadata: its running
\* workers, or a failure
RunningAnswers == {<<>>, <<"w1">>, <<"w2", "w3">>}

\* find_metadata, lines 814-843, with find_running_metadata_internal
\* (956-1004) and find_metadata_internal (1006-1059)
FindMetadata(filter, cursor, count) ==
    /\ find_call.op = "request"
    /\ find_call.filter = filter /\ find_call.cursor = cursor /\ find_call.count = count
    /\ IF filter.tag # "None" /\ IsFilterWithRunningStatus(filter)
          THEN \E a \in RunningAnswers, b \in RunningAnswers, failed \in BOOLEAN :
                  find_call' =
                     [op |-> "find_metadata", filter |-> filter, cursor |-> cursor,
                      count |-> count, target |-> "AllExecutors", ok |-> ~failed,
                      out_cursor |-> NoCursor,
                      workers |-> IF failed THEN <<>> ELSE Take(a \o b, count)]
          ELSE \E page \in RunningAnswers, next \in ScanCursors \cup {NoCursor},
                  failed \in BOOLEAN :
                  find_call' =
                     [op |-> "find_metadata", filter |-> filter, cursor |-> cursor,
                      count |-> count, target |-> "RandomExecutor", ok |-> ~failed,
                      out_cursor |-> IF failed THEN NoCursor ELSE next,
                      workers |-> IF failed THEN <<>> ELSE page]
    /\ FindFrame

\* a client's request reaches the service
FindRequested(filter, cursor, count) ==
    /\ find_call.op = "none"
    /\ find_call' = [NoFindCall EXCEPT !.op = "request", !.filter = filter,
                                       !.cursor = cursor, !.count = count]
    /\ FindFrame

\* the client has read the answer
FindAnswered ==
    /\ find_call.op = "find_metadata"
    /\ find_call' = NoFindCall
    /\ FindFrame

NextFind ==
    \/ \E filter \in WorkerFilters, cursor \in ScanCursors, count \in 0..MaxCount :
          \/ FindRequested(filter, cursor, count)
          \/ FindMetadata(filter, cursor, count)
    \/ FindAnswered

SpecFind == Init /\ [][NextFind]_vars

\* ------------------------------------------------ FileSystemBlobStorage (fs.rs)
FsFrame == UNCHANGED <<oplogVars, payloadVars, interruptVars, epochVars, cacheVars,
                       hostVars, routingVars, findVars, scanVars, fanOutVars, newVars, grpcVars,
                       backendVars>>

\* the directories path_of pushes for a namespace, lines 69-96
NamespaceDir(namespace) ==
    IF namespace = "CompilationCache" THEN <<"compilation_cache">>
    ELSE <<"custom_data", "acc1">>

\* path_of, lines 66-101: PathBuf::push of an absolute path replaces the
\* whole buffer, of a relative path appends its components
PathOf(namespace, path) ==
    IF path.absolute THEN path.comps
    ELSE Root \o NamespaceDir(namespace) \o path.comps

\* Path::starts_with: a component-wise prefix; ".." components are compared
\* as they stand
StartsWith(path, base) ==
    Len(base) <= Len(path) /\ SubSeq(path, 1, Len(base)) = base

\* ensure_path_is_inside_root, lines 103-109: TRUE for Ok(())
EnsurePathIsInsideRoot(path) == StartsWith(path, Root)

RECURSIVE Resolve(_, _)
\* the location the operating system reaches for an absolute path: ".."
\* steps to the parent, and the parent of "/" is "/"
Resolve(path, at) ==
    IF path = <<>> THEN at
    ELSE Resolve(Tail(path),
                 IF Head(path) = ".."
                    THEN (IF at = <<>> THEN <<>> ELSE SubSeq(at, 1, Len(at) - 1))
                    ELSE Append(at, Head(path)))

\* a call arrives
BlobCallArrives ==
    /\ fs_call.pc = "none"
    /\ \E op \in BlobOps, namespace \in Namespaces, path \in Paths :
          \E target \in (IF op = "copy_dir_contents" THEN Namespaces ELSE {namespace}),
             to \in (IF op \in {"copy", "copy_dir_contents"} THEN TargetPaths
                                                              ELSE {EmptyPath}) :
             fs_call' = [NoFsCall EXCEPT !.pc = "request", !.op = op,
                                         !.namespace = namespace, !.target = target,
                                         !.path = path, !.to = to]
    /\ FsFrame

\* get_raw, get_metadata, put_raw, delete, create_dir, list_dir, delete_dir,
\* exists: path_of, ensure_path_is_inside_root?, then the async_fs call
CheckedOp ==
    /\ fs_call.pc = "request"
    /\ fs_call.op \in CheckedOps
    /\ LET full_path == PathOf(fs_call.namespace, fs_call.path)
       IN  fs_call' =
              IF EnsurePathIsInsideRoot(full_path)
                 THEN [fs_call EXCEPT !.pc = "done", !.ok = TRUE,
                                      !.accessed = {Resolve(full_path, <<>>)}]
                 ELSE [fs_call EXCEPT !.pc = "done", !.ok = FALSE]
    /\ FsFrame

\* copy, lines 371-390
Copy ==
    /\ fs_call.pc = "request"
    /\ fs_call.op = "copy"
    /\ LET from_full_path == PathOf(fs_call.namespace, fs_call.path)
           to_full_path == PathOf(fs_call.namespace, fs_call.to)
       IN  fs_call' =
              IF EnsurePathIsInsideRoot(from_full_path) /\ EnsurePathIsInsideRoot(to_full_path)
                 THEN [fs_call EXCEPT !.pc = "done", !.ok = TRUE,
                                      !.accessed = {Resolve(from_full_path, <<>>),
                                                    Resolve(to_full_path, <<>>)}]
                 ELSE [fs_call EXCEPT !.pc = "done", !.ok = FALSE]
    /\ FsFrame

\* copy_dir_contents, lines 409-474: path_of for both paths, then read_dir
\* of the source and copies into the target; read_dir may fail
CopyDirContents ==
    /\ fs_call.pc = "request"
    /\ fs_call.op = "copy_dir_contents"
    /\ LET from_full_path == PathOf(fs_call.namespace, fs_call.path)
           to_full_path == PathOf(fs_call.target, fs_call.to)
       IN  \E readable \in BOOLEAN :
              fs_call' =
                 IF readable
                    THEN [fs_call EXCEPT !.pc = "done", !.ok = TRUE,
                                         !.accessed = {Resolve(from_full_path, <<>>),
                                                       Resolve(to_full_path, <<>>)}]
                    ELSE [fs_call EXCEPT !.pc = "done", !.ok = FALSE,
                                         !.accessed = {Resolve(from_full_path, <<>>)}]
    /\ FsFrame

\* the caller has the result
BlobCallReturns ==
    /\ fs_call.pc = "done"
    /\ fs_call' = NoFsCall
    /\ FsFrame

NextFs ==
    \/ BlobCallArrives
    \/ CheckedOp
    \/ Copy
    \/ CopyDirContents
    \/ BlobCallReturns

SpecFs == Init /\ [][NextFs]_vars

\* ------------------------------------------------ PrimaryOplogService::scan_for_component
ScanFrame == UNCHANGED <<oplogVars, payloadVars, interruptVars, epochVars, cacheVars,
                         hostVars, routingVars, findVars, fsVars, fanOutVars, newVars, grpcVars,
                         backendVars>>

\* oplog_key, lines 70-72: worker_id.to_redis_key(); a key is the sequence
\* of its ":"-separated segments
OplogKey(worker_id) ==
    IF redis_key_format = "worker:oplog:component:name"
       THEN <<"worker", "oplog", worker_id.component_id, worker_id.worker_name>>
       ELSE <<worker_id.component_id, worker_id.worker_name>>

\* key_pattern, lines 74-76: "<component>*"; TRUE when the glob matches key
MatchesKeyPattern(key, component_id) == Head(key) = component_id

\* get_worker_id_from_key, lines 78-89: ok = FALSE is the panic
GetWorkerIdFromKey(key, component_id) ==
    IF Len(key) = 4 /\ SubSeq(key, 1, 3) = <<"worker", "oplog", component_id>>
       THEN [ok |-> TRUE,
             worker_id |-> [component_id |-> component_id, worker_name |-> key[4]]]
       ELSE [ok |-> FALSE,
             worker_id |-> [component_id |-> component_id, worker_name |-> "-"]]

\* the stream keys of the storage, in its order
StreamKeys ==
    LET F[i \in 0..Len(KeyOrder)] ==
           IF i = 0 THEN <<>>
           ELSE IF KeyOrder[i] \in oplog_streams THEN Append(F[i - 1], OplogKey(KeyOrder[i]))
                ELSE F[i - 1]
    IN  F[Len(KeyOrder)]

\* IndexedStorage::scan(OpLog, pattern, cursor, count): looks at the next
\* count keys from the cursor and returns those the pattern matches; the
\* cursor returned is 0 when the keys are exhausted
StorageScan(component_id, cursor, count) ==
    LET keys == StreamKeys
        upto == Min(cursor + count, Len(keys))
    IN  [cursor |-> IF upto >= Len(keys) THEN 0 ELSE upto,
         keys |-> SelectSeq(SubSeq(keys, cursor + 1, upto),
                            LAMBDA key : MatchesKeyPattern(key, component_id))]

\* the service starts with the key function it was built with
ServiceStarts(format) ==
    /\ redis_key_format = "-"
    /\ redis_key_format' = format
    /\ UNCHANGED <<oplog_streams, scan_call>>
    /\ ScanFrame

\* a worker's oplog stream comes to exist, between two pagings
OplogStreamCreated(worker_id) ==
    /\ redis_key_format # "-"
    /\ scan_call.pc = "idle"
    /\ worker_id \notin oplog_streams
    /\ oplog_streams' = oplog_streams \cup {worker_id}
    /\ UNCHANGED <<redis_key_format, scan_call>>
    /\ ScanFrame

\* a client starts paging from cursor 0
PagingStarts(component_id) ==
    /\ redis_key_format # "-"
    /\ scan_call.pc = "idle"
    /\ scan_call' = [NoScanCall EXCEPT !.pc = "paging", !.component_id = component_id]
    /\ UNCHANGED <<redis_key_format, oplog_streams>>
    /\ ScanFrame

\* scan_for_component, lines 240-268, called with the cursor returned last
ScanForComponent(count) ==
    /\ scan_call.pc = "paging"
    /\ LET page == StorageScan(scan_call.component_id, scan_call.cursor, count)
           ids == [i \in 1..Len(page.keys) |->
                      GetWorkerIdFromKey(page.keys[i], scan_call.component_id)]
       IN  scan_call' =
              IF \E i \in 1..Len(ids) : ~ids[i].ok
                 THEN [scan_call EXCEPT !.pc = "finished", !.out = "panic",
                                        !.calls = @ + 1]
                 ELSE [scan_call EXCEPT
                          !.pc = IF page.cursor = 0 THEN "finished" ELSE "paging",
                          !.out = "Ok", !.cursor = page.cursor, !.calls = @ + 1,
                          !.worker_ids = @ \o [i \in 1..Len(ids) |-> ids[i].worker_id]]
    /\ UNCHANGED <<redis_key_format, oplog_streams>>
    /\ ScanFrame

\* the client is done with the result
PagingEnds ==
    /\ scan_call.pc = "finished"
    /\ scan_call' = NoScanCall
    /\ UNCHANGED <<redis_key_format, oplog_streams>>
    /\ ScanFrame

NextScan ==
    \/ \E format \in RedisKeyFormats : ServiceStarts(format)
    \/ \E worker_id \in WorkerIds : OplogStreamCreated(worker_id)
    \/ \E component_id \in ComponentIds : PagingStarts(component_id)
    \/ \E count \in 1..MaxScanCount : ScanForComponent(count)
    \/ PagingEnds

SpecScan == Init /\ [][NextScan]_vars

\* ------------------------------------------------ find_running_metadata_internal
FanOutFrame == UNCHANGED <<oplogVars, payloadVars, interruptVars, epochVars, cacheVars,
                           hostVars, routingVars, findVars, fsVars, scanVars, newVars, grpcVars,
                           backendVars>>

MapRunningResponseEmptyIsNoWorkers(response) ==
    CASE response.result = "Success" ->
            IF \E i \in 1..Len(response.workers) : response.workers[i] = "bad"
               THEN [ok |-> FALSE, err |-> "Convert response error", workers |-> <<>>]
               ELSE [ok |-> TRUE, err |-> "-", workers |-> response.workers]
      [] response.result = "Failure" ->
            [ok |-> FALSE, err |-> "Failure", workers |-> <<>>]
      [] OTHER -> [ok |-> TRUE, err |-> "-", workers |-> <<>>]

\* the closure applied to each response, lines 979-998
MapRunningResponse(response) ==
    CASE response.result = "Success" ->
            IF \E i \in 1..Len(response.workers) : response.workers[i] = "bad"
               THEN [ok |-> FALSE, err |-> "Convert response error", workers |-> <<>>]
               ELSE [ok |-> TRUE, err |-> "-", workers |-> response.workers]
      [] response.result = "Failure" ->
            [ok |-> FALSE, err |-> "Failure", workers |-> <<>>]
      [] OTHER -> [ok |-> FALSE, err |-> "Empty response", workers |-> <<>>]

RECURSIVE CollectResults(_, _)
\* collect::<Result<Vec<_>, _>>() (line 999) with the flatten of line 1003:
\* the first Err ends it, otherwise the workers in response order
CollectResults(responses, acc) ==
    IF responses = <<>> THEN [ok |-> TRUE, err |-> "-", workers |-> acc]
    ELSE LET mapped == MapRunningResponse(Head(responses))
         IN  IF mapped.ok THEN CollectResults(Tail(responses), acc \o mapped.workers)
             ELSE mapped

\* call_worker_executor(AllExecutors, ..) has the responses of the executors
FanOutResponds(responses) ==
    /\ fanout_call.pc = "idle"
    /\ responses # <<>>
    /\ fanout_call' = [NoFanOut EXCEPT !.pc = "responses", !.responses = responses]
    /\ FanOutFrame

\* find_running_metadata_internal, lines 956-1004, from the responses on
FindRunningMetadataInternal ==
    /\ fanout_call.pc = "responses"
    /\ LET result == CollectResults(fanout_call.responses, <<>>)
       IN  fanout_call' = [fanout_call EXCEPT !.pc = "done", !.ok = result.ok,
                                              !.err = result.err,
                                              !.workers = result.workers]
    /\ FanOutFrame

\* the caller has the result
FanOutReturns ==
    /\ fanout_call.pc = "done"
    /\ fanout_call' = NoFanOut
    /\ FanOutFrame

NextFanOut ==
    \/ \E responses \in SeqsUpTo(RunningWorkersResponses, MaxResponses) :
          FanOutResponds(responses)
    \/ FindRunningMetadataInternal
    \/ FanOutReturns

SpecFanOut == Init /\ [][NextFanOut]_vars

\* ---- reopen: tasks that open, write through, commit and drop the handle of
\* the worker, with no delete of the stream
ReopenStep(t) ==
        \/ pc[t] # "create_open" /\ OpenGetLastIndex(t)
        \/ OpenGetOrOpen(t)
        \/ DropHandle(t)
        \/ \E e \in OplogEntries : AddBegin(t, e)
        \/ CommitBegin(t)
        \/ AppendEntry(t)
        \/ CurrentOplogIndex(t)

NextReopen == \E t \in Tasks : ReopenStep(t)

SpecReopen == InitHandle /\ [][NextReopen]_vars

\* ------------------------------------------------ Worker::new, lines 32-157
WorkerNewFrame == UNCHANGED <<oplogVars, payloadVars, interruptVars, epochVars,
                              active_workers, builds, callers,
                              hostVars, routingVars, findVars, fsVars, scanVars, fanOutVars,
                              grpcVars, backendVars>>

\* `?` inside the block of `let result = { .. }` (lines 45-148): the block is
\* no closure and no async block, so the error leaves Worker::new at once and
\* the match of lines 150-153 is not reached
EarlyReturn(call, step) ==
    [call EXCEPT !.pc = "done", !.out = "Err", !.failed_at = step]

\* Worker::new is called
WorkerNewStarts(worker_args, worker_env, template_version) ==
    /\ worker_new.pc = "idle"
    /\ worker_new.calls < MaxNews
    /\ worker_new' = [worker_new EXCEPT
                         !.pc = "template", !.step = 0, !.out = "none", !.failed_at = "-",
                         !.calls = @ + 1,
                         !.metadata = WorkerMetadata(worker_args, worker_env, template_version)]
    /\ UNCHANGED worker_service
    /\ WorkerNewFrame

\* lines 48-60: template_service().get / get_latest, with `?`
WorkerNewTemplate(ok) ==
    /\ worker_new.pc = "template"
    /\ worker_new' =
          IF ok THEN [worker_new EXCEPT
                         !.pc = "add",
                         !.metadata.template_version =
                             IF @ = NoVersion THEN LatestVersion ELSE @]
          ELSE EarlyReturn(worker_new, "template_service")
    /\ UNCHANGED worker_service
    /\ WorkerNewFrame

\* lines 67-75: worker_service().add(&worker_metadata), with `?`
WorkerNewAdd(ok) ==
    /\ worker_new.pc = "add"
    /\ IF ok THEN /\ worker_service' = Append(worker_service, worker_new.metadata)
                  /\ worker_new' = [worker_new EXCEPT !.pc = "later", !.step = 1]
       ELSE /\ worker_new' = EarlyReturn(worker_new, "worker_service")
            /\ UNCHANGED worker_service
    /\ WorkerNewFrame

\* lines 77-136: Ctx::create, add_fuel and borrow_fuel, instantiate_pre,
\* instantiate_async, prepare_instance, each with `?`
WorkerNewLaterStep(ok) ==
    /\ worker_new.pc = "later"
    /\ worker_new' =
          IF ~ok THEN EarlyReturn(worker_new, LaterSteps[worker_new.step])
          ELSE IF worker_new.step = Len(LaterSteps)
                  THEN [worker_new EXCEPT !.pc = "record", !.step = 0]
                  ELSE [worker_new EXCEPT !.step = @ + 1]
    /\ UNCHANGED worker_service
    /\ WorkerNewFrame

\* lines 138-156: Ok(result), then the match that records the metric
WorkerNewRecords ==
    /\ worker_new.pc = "record"
    /\ worker_new' = [worker_new EXCEPT !.pc = "done", !.out = "Ok",
                                        !.create_worker = @ + 1]
    /\ UNCHANGED worker_service
    /\ WorkerNewFrame

\* the caller has the result
WorkerNewReturns ==
    /\ worker_new.pc = "done"
    /\ worker_new' = [worker_new EXCEPT !.pc = "idle", !.metadata = NoMetadata]
    /\ UNCHANGED worker_service
    /\ WorkerNewFrame

NextWorkerNew ==
    \/ \E worker_args \in WorkerArgs, worker_env \in WorkerEnvs,
          template_version \in {NoVersion} \cup TemplateVersions :
          WorkerNewStarts(worker_args, worker_env, template_version)
    \/ \E ok \in BOOLEAN :
          \/ WorkerNewTemplate(ok)
          \/ WorkerNewAdd(ok)
          \/ WorkerNewLaterStep(ok)
    \/ WorkerNewRecords
    \/ WorkerNewReturns

SpecWorkerNew == Init /\ [][NextWorkerNew]_vars

\* ------------------------------------------------ grpc::RecordedGrpcRequest (metrics.rs)
GrpcFrame == UNCHANGED <<oplogVars, payloadVars, interruptVars, epochVars, cacheVars,
                         hostVars, routingVars, findVars, fsVars, scanVars, fanOutVars,
                         newVars, backendVars>>

\* record_grpc_success(api_name, elapsed)
RecordGrpcSuccess(request) ==
    [request EXCEPT !.observations = Append(@, "success")]

\* record_grpc_failure(api_name, error_kind, elapsed)
RecordGrpcFailure(request, error_kind) ==
    [request EXCEPT !.observations = Append(@, error_kind)]

\* the body of succeed, lines 161-176: start_time.take(), then the record
SucceedBody(request) ==
    IF request.start_time = "Some"
       THEN RecordGrpcSuccess([request EXCEPT !.start_time = "None"])
       ELSE request

\* the body of fail, lines 178-195
FailBody(request, error_kind) ==
    IF request.start_time = "Some"
       THEN RecordGrpcFailure([request EXCEPT !.start_time = "None"], error_kind)
       ELSE request

DropBodyAlwaysRecords(request) ==
    [RecordGrpcFailure(request, "Drop") EXCEPT !.start_time = "None", !.state = "dropped"]

\* impl Drop, lines 198-204
DropBody(request) ==
    IF request.start_time = "Some"
       THEN [RecordGrpcFailure(request, "Drop") EXCEPT !.start_time = "None",
                                                        !.state = "dropped"]
       ELSE [request EXCEPT !.state = "dropped"]

\* RecordedGrpcRequest::new, lines 154-160
NewRequest(r, api_name) ==
    /\ grpc_requests[r].state = "none"
    /\ \A q \in 1..(r - 1) : grpc_requests[q].state # "none"
    /\ grpc_requests' = [grpc_requests EXCEPT ![r] =
          [NoRequest EXCEPT !.state = "live", !.api_name = api_name, !.start_time = "Some"]]
    /\ GrpcFrame

\* succeed(self, result): the request is moved in and dropped when it returns
Succeed(r) ==
    /\ grpc_requests[r].state = "live"
    /\ grpc_requests' = [grpc_requests EXCEPT ![r] =
          DropBody([SucceedBody(grpc_requests[r]) EXCEPT !.ended_by = "succeed"])]
    /\ GrpcFrame

\* fail(self, result, error): likewise
Fail(r, error_kind) ==
    /\ grpc_requests[r].state = "live"
    /\ grpc_requests' = [grpc_requests EXCEPT ![r] =
          DropBody([FailBody(grpc_requests[r], error_kind) EXCEPT !.ended_by = error_kind])]
    /\ GrpcFrame

\* the request goes out of scope without succeed or fail (an early return,
\* a cancelled future)
DropRequest(r) ==
    /\ grpc_requests[r].state = "live"
    /\ grpc_requests' = [grpc_requests EXCEPT ![r] =
          DropBody([grpc_requests[r] EXCEPT !.ended_by = "drop"])]
    /\ GrpcFrame

NextGrpc ==
    \E r \in 1..MaxRequests :
        \/ \E api_name \in ApiNames : NewRequest(r, api_name)
        \/ Succeed(r)
        \/ \E error_kind \in ErrorKinds : Fail(r, error_kind)
        \/ DropRequest(r)

SpecGrpc == Init /\ [][NextGrpc]_vars

\* ------------------------------------------------ InMemoryBlobStorage / FileSystemBlobStorage
BackendsFrame == UNCHANGED <<oplogVars, payloadVars, interruptVars, epochVars, cacheVars,
                             hostVars, routingVars, findVars, fsVars, scanVars, fanOutVars,
                             newVars, grpcVars>>

\* Path::parent
Parent(path) == SubSeq(path, 1, Len(path) - 1)

\* the path and its ancestors below the namespace directory
Ancestors(path) == {SubSeq(path, 1, k) : k \in 1..Len(path)}

BlobOk == [tag |-> "Ok", found |-> {}]

BlobErr == [tag |-> "Err", found |-> {}]

BlobFound(tag, found) == [tag |-> tag, found |-> found]

\* ---- memory.rs: every call answers Ok
\* put_raw, lines 99-130: entry(dir).or_default().insert(key, entry)
MemPutRaw(b, path) ==
    [b EXCEPT !.mem_dirs = @ \cup {Parent(path)}, !.mem_files = @ \cup {path}, !.mem = BlobOk]

\* delete, lines 132-155
MemDelete(b, path) ==
    [b EXCEPT !.mem_files = @ \ {path}, !.mem = BlobOk]

\* create_dir, lines 174-189
MemCreateDir(b, path) ==
    [b EXCEPT !.mem_dirs = @ \cup {path}, !.mem = BlobOk]

\* delete_dir, lines 232-244: namespace_data.remove(&dir), the one key
MemDeleteDir(b, path) ==
    [b EXCEPT !.mem_dirs = @ \ {path},
              !.mem_files = {f \in @ : Parent(f) # path},
              !.mem = BlobOk]

\* get_raw, lines 53-74
MemGetRaw(b, path) ==
    [b EXCEPT !.mem = IF path \in b.mem_files THEN BlobFound("Some", {}) ELSE BlobFound("None", {})]

\* exists, lines 246-285
MemExists(b, path) ==
    [b EXCEPT !.mem = IF path \in b.mem_dirs THEN BlobFound("Directory", {})
                      ELSE IF path \in b.mem_files THEN BlobFound("File", {})
                      ELSE BlobFound("DoesNotExist", {})]

\* list_dir, lines 191-230: the entries of the directory, then every other
\* directory key that begins with "<dir>/"
MemListDir(b, path) ==
    [b EXCEPT !.mem =
        IF path \in b.mem_dirs
           THEN BlobFound("Ok", {f \in b.mem_files : Parent(f) = path}
                                   \cup {d \in b.mem_dirs : d # path /\ StartsWith(d, path)})
           ELSE BlobFound("Ok", {})]

\* ---- fs.rs, on a POSIX file system
\* async_fs::create_dir_all: fails when a file is in the way
FsCreateDirAll(b, path) ==
    IF Ancestors(path) \cap b.fs_files # {} THEN [b EXCEPT !.fs = BlobErr]
    ELSE [b EXCEPT !.fs_dirs = @ \cup Ancestors(path), !.fs = BlobOk]

\* put_raw, lines 160-182: create the parent if metadata(parent) fails, write
FsPutRaw(b, path) ==
    LET parent == Parent(path)
        made == IF parent # <<>> /\ parent \notin b.fs_dirs \cup b.fs_files
                   THEN FsCreateDirAll(b, parent) ELSE [b EXCEPT !.fs = BlobOk]
    IN  IF made.fs = BlobErr THEN made
        ELSE IF path \in made.fs_dirs \/ parent \in made.fs_files
                THEN [made EXCEPT !.fs = BlobErr]
                ELSE [made EXCEPT !.fs_files = @ \cup {path}, !.fs = BlobOk]

\* delete, lines 184-196: async_fs::remove_file
FsDelete(b, path) ==
    IF path \in b.fs_files THEN [b EXCEPT !.fs_files = @ \ {path}, !.fs = BlobOk]
    ELSE [b EXCEPT !.fs = BlobErr]

\* create_dir, lines 294-307
FsCreateDir(b, path) == FsCreateDirAll(b, path)

\* delete_dir, lines 334-347: async_fs::remove_dir_all
FsDeleteDir(b, path) ==
    IF path \in b.fs_dirs
       THEN [b EXCEPT !.fs_dirs = {d \in @ : ~StartsWith(d, path)},
                      !.fs_files = {f \in @ : ~StartsWith(f, path)},
                      !.fs = BlobOk]
       ELSE [b EXCEPT !.fs = BlobErr]

\* get_raw, lines 114-131: metadata, then read (which fails on a directory)
FsGetRaw(b, path) ==
    [b EXCEPT !.fs = IF path \in b.fs_files THEN BlobFound("Some", {})
                     ELSE IF path \in b.fs_dirs THEN BlobErr
                     ELSE BlobFound("None", {})]

\* exists, lines 349-366
FsExists(b, path) ==
    [b EXCEPT !.fs = IF path \in b.fs_files THEN BlobFound("File", {})
                     ELSE IF path \in b.fs_dirs THEN BlobFound("Directory", {})
                     ELSE BlobFound("DoesNotExist", {})]

\* list_dir, lines 309-332: read_dir, entries relative to the namespace root
FsListDir(b, path) ==
    [b EXCEPT !.fs =
        IF path \in b.fs_dirs
           THEN BlobFound("Ok", {e \in b.fs_files \cup b.fs_dirs :
                                    e # <<>> /\ Parent(e) = path})
           ELSE BlobErr]

\* one call, made identically on both backends
Called(op, path) == [backends EXCEPT !.op = op, !.path = path]

PutRaw(path) ==
    /\ backends' = FsPutRaw(MemPutRaw(Called("put_raw", path), path), path)
    /\ BackendsFrame

Delete(path) ==
    /\ backends' = FsDelete(MemDelete(Called("delete", path), path), path)
    /\ BackendsFrame

CreateDir(path) ==
    /\ backends' = FsCreateDir(MemCreateDir(Called("create_dir", path), path), path)
    /\ BackendsFrame

DeleteDir(path) ==
    /\ backends' = FsDeleteDir(MemDeleteDir(Called("delete_dir", path), path), path)
    /\ BackendsFrame

GetRaw(path) ==
    /\ backends' = FsGetRaw(MemGetRaw(Called("get_raw", path), path), path)
    /\ BackendsFrame

Exists(path) ==
    /\ backends' = FsExists(MemExists(Called("exists", path), path), path)
    /\ BackendsFrame

ListDir(path) ==
    /\ backends' = FsListDir(MemListDir(Called("list_dir", path), path), path)
    /\ BackendsFrame

NextBackends ==
    \E path \in BlobPaths :
        \/ PutRaw(path)
        \/ Delete(path)
        \/ CreateDir(path)
        \/ DeleteDir(path)
        \/ GetRaw(path)
        \/ Exists(path)
        \/ ListDir(path)

SpecBackends == Init /\ [][NextBackends]_vars

PanicOutcomes == {"panic_storage", "panic_append", "panic_exists", "panic_missing"}

\* C17: an error of the indexed storage in create, open, add / commit, read,
\* drop_prefix, length, delete, get_first_index or get_last_index ends the
\* operation with a panic: the operation returns no value, takes no further
\* step, and changes neither the stream nor the indices of a handle after
\* the error.
C17_BackendErrorIsFatal ==
    [][\A t \in Tasks : \A site \in ErrorSites :
          BackendError(t, site) =>
             /\ res'.out \in PanicOutcomes
             /\ res'.op = SiteOp(t, site)
             /\ pc'[t] = "idle"
             /\ entries'[t] = <<>>
             /\ stream' = stream
             /\ held' = held /\ oplogs' = oplogs
             /\ \A h \in HandleIds :
                   /\ handles'[h].last_committed_idx = handles[h].last_committed_idx
                   /\ handles'[h].last_oplog_idx = handles[h].last_oplog_idx
                   /\ handles'[h].lock # t
    ]_vars

\* the length read inside drop_prefix failed: drop_prefix panicked after the
\* truncation, and the emptied stream was not deleted
C17_Witness ==
    /\ res = Result("drop_prefix", "panic_storage", 0, Absent)
    /\ AllIdle
    /\ StorageExists(stream)
    /\ StorageLength(stream) = 0
    /\ \E h \in HandleIds : handles[h].live /\ handles[h].lock = NoTask

\* C18: set_interrupting(kind) follows this table in one step: Running ->
\* Interrupting{kind} over a new channel, returning its receiver; Suspended ->
\* Interrupted{kind}, returning none; Interrupting -> the same Interrupting,
\* returning a new subscription to the existing channel; Interrupted -> the
\* same Interrupted, returning none. The status after the call is never
\* Running or Suspended, and from Running it is never Interrupted.
C18_SetInterruptingTable ==
    [][\A kind \in InterruptKinds :
          SetInterrupting(kind) =>
             /\ execution_status'.state \notin {"Running", "Suspended"}
             /\ execution_status.state = "Running" =>
                   /\ execution_status'.state = "Interrupting"
                   /\ execution_status'.interrupt_kind = kind
                   /\ execution_status'.await_interruption \in FreeChannels
                   /\ interrupt_ret'.some
                   /\ interrupt_ret'.chan = execution_status'.await_interruption
             /\ execution_status.state = "Suspended" =>
                   /\ execution_status' = Interrupted(kind)
                   /\ ~interrupt_ret'.some
             /\ execution_status.state = "Interrupting" =>
                   /\ execution_status'.state = "Interrupting"
                   /\ execution_status'.await_interruption =
                         execution_status.await_interruption
                   /\ interrupt_ret'.some
                   /\ interrupt_ret'.chan = execution_status.await_interruption
                   /\ interrupt_ret'.waiter \in FreeWaiters
             /\ execution_status.state = "Interrupted" =>
                   /\ execution_status'.state = "Interrupted"
                   /\ ~interrupt_ret'.some
             /\ interrupt_ret'.some =>
                   receivers'[interrupt_ret'.waiter] =
                      [chan |-> interrupt_ret'.chan, state |-> "blocked"]
             /\ \A w \in WaiterIds :
                   (~interrupt_ret'.some \/ w # interrupt_ret'.waiter) =>
                      receivers'[w] = receivers[w]
    ]_vars

\* two callers hold receivers of the one channel of an Interrupting worker:
\* the first through Running -> Interrupting, the second by subscribing
C18_Witness ==
    /\ execution_status.state = "Interrupting"
    /\ interrupt_ret.op = "set_interrupting" /\ interrupt_ret.some
    /\ interrupt_ret.waiter \in BlockedOn(execution_status.await_interruption)
    /\ Cardinality(BlockedOn(execution_status.await_interruption)) >= 2

\* C19: set_interrupting on an Interrupting or Interrupted worker leaves
\* ExecutionStatus as it was: state, recorded kind and channel are unchanged
\* whatever kind the call passes; on Interrupted it returns no waiter and no
\* receiver is created.
C19_RepeatedInterruptKeepsStatus ==
    [][\A kind \in InterruptKinds :
          SetInterrupting(kind) /\ execution_status.state \in {"Interrupting", "Interrupted"} =>
             /\ execution_status' = execution_status
             /\ execution_status.state = "Interrupted" =>
                   /\ ~interrupt_ret'.some
                   /\ receivers' = receivers
    ]_vars

\* a call passing another kind than the recorded one has returned
C19_Witness ==
    /\ execution_status.state \in {"Interrupting", "Interrupted"}
    /\ interrupt_ret.op = "set_interrupting"
    /\ interrupt_ret.kind # execution_status.interrupt_kind
    /\ execution_status.state = "Interrupted" => ~interrupt_ret.some

\* C20: no receiver handed out by set_interrupting is still blocked when the
\* worker is Interrupted, and every blocked receiver is eventually released,
\* whether it came from Running -> Interrupting or from a later subscription.
C20_WaitersEventuallyUnblocked ==
    /\ [](execution_status.state = "Interrupted" =>
             \A w \in WaiterIds : receivers[w].state # "blocked")
    /\ \A w \in WaiterIds :
          (receivers[w].state = "blocked") ~> (receivers[w].state # "blocked")

\* the worker is Interrupted and has released two receivers of one channel,
\* the second of them subscribed while the worker was Interrupting
C20_Witness ==
    /\ execution_status.state = "Interrupted"
    /\ receivers[1].state = "woken" /\ receivers[2].state = "woken"
    /\ receivers[1].chan = receivers[2].chan

\* C21: at every epoch tick the callback returns the pending interrupt as an
\* error, trapping the guest, exactly when ExecutionStatus holds a pending
\* interrupt, and otherwise asks for the next yield 1 tick later; a tick that
\* borrows fuel checks the interrupt all the same. A guest that executes
\* while the worker is Interrupting stops executing (at the next tick).
C21_InterruptWithinOneEpoch ==
    /\ [][EpochDeadlineCallback =>
            /\ execution_status.state = "Interrupting" =>
                  /\ store'.epoch_ret = EpochErr(execution_status.interrupt_kind)
                  /\ store'.guest = "trapped"
            /\ execution_status.state # "Interrupting" =>
                  /\ store'.epoch_ret = EpochYield(1)
                  /\ store'.guest = "executing"
       ]_vars
    /\ (store.guest = "executing" /\ execution_status.state = "Interrupting")
          ~> (store.guest # "executing")

\* the tick that found the store out of fuel borrowed from the account and
\* still returned the pending interrupt
C21_Witness ==
    /\ store.guest = "trapped"
    /\ store.borrowed
    /\ store.fuel_remaining > 0
    /\ store.epoch_ret.tag = "Err"
    /\ execution_status.state = "Interrupting"
    /\ store.epoch_ret.kind = execution_status.interrupt_kind

\* C22: a callback that runs with no fuel remaining and an account that has
\* nothing to lend returns an OutOfFuel error, not a Yield.
C22_OutOfFuelIsAnError ==
    [][EpochDeadlineCallback /\ store.fuel_remaining = 0 /\ store.account = 0 =>
          store'.epoch_ret.tag = "Err" /\ store'.epoch_ret.kind = "OutOfFuel"
    ]_vars

\* C23: a get_or_create that finds the worker built returns
\* WorkerCreationFailed exactly when its args or env differ from the worker's
\* metadata, or it supplies a version that differs from the worker's (no
\* version supplied: not compared); otherwise it returns that worker. Either
\* way the cache slot, the worker's metadata, the persisted metadata and the
\* ExecutionStatus are as before.
C23_MismatchIsRejectedWithoutEffect ==
    [][\A c \in Callers :
          GetOrCreateReturns(c) /\ builds[callers[c].build].state = "ok" =>
             LET worker == builds[callers[c].build].metadata
                 differs == \/ worker.args # callers[c].worker_args
                            \/ worker.env # callers[c].worker_env
                            \/ /\ callers[c].template_version # NoVersion
                               /\ worker.template_version # callers[c].template_version
             IN  /\ differs => callers'[c].out = OutErr("WorkerCreationFailed")
                 /\ ~differs => callers'[c].out = OutOk(callers[c].build)
                 /\ active_workers' = active_workers
                 /\ builds' = builds
                 /\ worker_service' = worker_service
                 /\ execution_status' = execution_status
    ]_vars

\* the worker is cached, built once; one caller got it, the other was
\* refused for its differing values
C23_Witness ==
    /\ active_workers = [state |-> "cached", build |-> 1]
    /\ Len(builds) = 1
    /\ callers["c1"].out = OutOk(1)
    /\ callers["c2"].op = "get_or_create"
    /\ callers["c2"].out = OutErr("WorkerCreationFailed")

RunningBuilds == {b \in 1..Len(builds) : builds[b].state \in {"template", "add", "instantiate"}}

\* C24: a construction starts only when the slot of the worker_id is empty;
\* at most one Worker::new runs at a time, none while the worker is cached;
\* calls that arrive meanwhile share the slot's construction (Pending, or the
\* built worker); a construction persists its metadata at most once, and it
\* is the metadata its constructor was started with.
C24_SingleFlight ==
    /\ [](/\ Cardinality(RunningBuilds) <= 1
          /\ active_workers.state = "cached" =>
                RunningBuilds = {} /\ builds[active_workers.build].state = "ok"
          /\ active_workers.state = "pending" => RunningBuilds = {active_workers.build}
          /\ active_workers.state = "empty" => RunningBuilds = {}
          /\ Len(worker_service) <= Len(builds)
          /\ \A c \in Callers :
                /\ callers[c].out.tag \in {"Ok", "Final"} =>
                      builds[callers[c].out.build].state = "ok"
                /\ callers[c].out.tag = "Pending" =>
                      callers[c].out.build \in 1..Len(builds))
    /\ [][/\ Len(builds') > Len(builds) => active_workers.state = "empty"
          /\ \A c \in Callers :
                callers[c].pc = "idle" /\ callers'[c].pc # "idle"
                   /\ active_workers.state # "empty" =>
                      /\ builds' = builds
                      /\ callers'[c].build = active_workers.build
          /\ \A b \in 1..Len(builds) :
                NewAddsMetadata(b) =>
                   \/ worker_service' = Append(worker_service, builds[b].metadata)
                   \/ worker_service' = worker_service /\ builds'[b].state = "err"
       ]_vars

\* two get_or_create calls with different args wait for the one construction,
\* which has persisted its metadata
C24_Witness ==
    /\ Len(builds) = 1
    /\ builds[1].state = "instantiate"
    /\ Len(worker_service) = 1
    /\ callers["c1"].pc = "awaiting" /\ callers["c2"].pc = "awaiting"
    /\ callers["c1"].build = 1 /\ callers["c2"].build = 1
    /\ callers["c1"].worker_args # callers["c2"].worker_args

\* C25: in live mode every clock read and every TCP socket function appends
\* an ImportedFunctionInvoked entry carrying its name to the worker's oplog
\* before it returns to the guest.
C25_EveryHostCallIsJournalled ==
    [][/\ \A function_name \in ClockFunctions :
             ClockRead(function_name) /\ golem_ctx.mode = "live" =>
                /\ host_call'.journalled
                /\ Len(golem_ctx'.oplog) = Len(golem_ctx.oplog) + 1
                /\ golem_ctx'.oplog[Len(golem_ctx'.oplog)].fn = function_name
       /\ \A function_name \in TcpFunctions :
             TcpCall(function_name) /\ golem_ctx.mode = "live" =>
                /\ host_call'.journalled
                /\ Len(golem_ctx'.oplog) = Len(golem_ctx.oplog) + 1
                /\ golem_ctx'.oplog[Len(golem_ctx'.oplog)].fn = function_name
    ]_vars

\* C26: what the guest gets from its k-th wrapped call is the outcome in the
\* k-th ImportedFunctionInvoked entry, value or error; a replaying guest sees
\* the results of the run before in the same order, and a wrapped call in
\* replay mode takes its result from the next entry, without calling the host
\* and without writing the oplog, whatever the clock shows.
C26_ReplayReturnsJournalledResults ==
    /\ [](/\ Len(guest.trace) <= Len(golem_ctx.oplog)
          /\ \A k \in 1..Len(guest.trace) : guest.trace[k] = golem_ctx.oplog[k]
          /\ golem_ctx.mode = "replay" =>
                /\ Len(guest.trace) = golem_ctx.replay_idx
                /\ Len(guest.trace) < Len(guest.original)
                /\ guest.trace = SubSeq(guest.original, 1, Len(guest.trace)))
    /\ [][\A function_name \in ClockFunctions :
             (ClockRead(function_name) \/ (\E when \in Instants : SubscribeDurationNow(when)))
                /\ golem_ctx.mode = "replay" =>
                   /\ host_call'.outcome = golem_ctx.oplog[golem_ctx.replay_idx + 1].outcome
                   /\ ~host_call'.real
                   /\ golem_ctx'.oplog = golem_ctx.oplog
                   /\ golem_ctx'.clock = golem_ctx.clock
                   /\ guest'.trace = SubSeq(guest.original, 1, Len(guest.trace) + 1)
       ]_vars

\* a replay has returned a journalled error and a journalled instant that is
\* not what the clock shows now, and the guest has seen the whole first run
C26_Witness ==
    /\ guest.original # <<>>
    /\ guest.trace = guest.original
    /\ ~host_call.real /\ host_call.fn \in ClockFunctions
    /\ \E k \in 1..Len(guest.trace) : ~guest.trace[k].outcome.ok
    /\ \E k \in 1..Len(guest.trace) :
          /\ guest.trace[k].fn = "monotonic_clock::now"
          /\ guest.trace[k].outcome.ok
          /\ guest.trace[k].outcome.val # golem_ctx.clock

\* C27: subscribe_duration creates the timer pollable only after the entry of
\* its clock read is committed, and the pollable's deadline is the journalled
\* instant plus the duration, saturating at the largest instant; a replay,
\* reading the same entry, gets the same deadline.
C27_CommitBeforePollable ==
    /\ [](\A i \in 1..Len(pollables) :
             LET p == pollables[i]
             IN  /\ p.entry \in 1..golem_ctx.committed
                 /\ golem_ctx.oplog[p.entry].fn = "monotonic_clock::now"
                 /\ golem_ctx.oplog[p.entry].outcome.ok
                 /\ p.deadline \in Instants
                 /\ p.deadline >= golem_ctx.oplog[p.entry].outcome.val
                 /\ p.deadline = (IF golem_ctx.oplog[p.entry].outcome.val + p.when > MaxInstant
                                     THEN MaxInstant
                                     ELSE golem_ctx.oplog[p.entry].outcome.val + p.when))
    /\ [][Len(pollables') > Len(pollables) =>
             /\ host_call.pc = "subscribe_instant"
             /\ host_call.entry <= golem_ctx.committed
             /\ golem_ctx' = golem_ctx
       ]_vars

\* a replay of subscribe_duration has created a pollable whose deadline
\* saturated, from an instant that is not what the clock shows
C27_Witness ==
    /\ Len(pollables) = 1
    /\ guest.original # <<>>
    /\ pollables[1].when > 0
    /\ golem_ctx.oplog[pollables[1].entry].outcome.val + pollables[1].when > MaxInstant
    /\ pollables[1].deadline = MaxInstant
    /\ golem_ctx.oplog[pollables[1].entry].outcome.val # golem_ctx.clock

\* C28: a routed call that gets Invalid shard or Connection failure drops the
\* cached routing, backs off and tries again against the routing fetched
\* anew; it surfaces such an error only when its budget of attempts is used
\* up; it never makes more attempts than the budget and always finishes, with
\* the mapped response or an error; after one stale-routing rejection an
\* answer of the right executor is the call's result.
C28_RoutingErrorsAreRetried ==
    /\ [](/\ routed_call.attempts \in 0..RetryBudget
          /\ routed_call.out = "Err(routing)" => routed_call.attempts = RetryBudget
          /\ routed_call.pc = "backoff" =>
                routing_table = NoExecutor /\ routed_call.attempts < RetryBudget
          /\ routed_call.pc = "done" /\ routed_call.out # "Err(routing)" =>
                /\ routed_call.sent_to # NoExecutor
                /\ routed_call.rejected = routed_call.attempts - 1)
    /\ [][/\ routed_call.pc = "backoff" /\ routed_call'.pc = "invoke" => FALSE
          /\ routed_call.pc = "resolve" /\ routed_call'.pc = "invoke"
                /\ routed_call.attempts > 0 => routed_call'.sent_to = shard_owner
       ]_vars
    /\ (routed_call.pc # "idle") ~> (routed_call.pc = "done")

\* the executor the stale routing named rejected the request once, the
\* refreshed routing named the owner, and create succeeded
C28_Witness ==
    /\ routed_call.pc = "done"
    /\ routed_call.out = "Ok(worker_id)"
    /\ routed_call.attempts = 2
    /\ routed_call.rejected = 1
    /\ routed_call.sent_to = shard_owner
    /\ shard_owner = "B"

\* C29: a find_metadata whose filter is Status = Running (alone or as a
\* member of an And) has gone to AllExecutors, not to RandomExecutor; its
\* result carries no cursor whatever cursor was passed, and at most count
\* workers.
C29_RunningFilterFansOut ==
    \A f \in {StatusFilter("Equal", "Running")}
             \cup {AndFilter(fs) : fs \in {<<StatusFilter("Equal", "Running")>>,
                                           <<NameFilter, StatusFilter("Equal", "Running")>>,
                                           <<StatusFilter("Equal", "Running"), NameFilter>>}} :
       find_call.op = "find_metadata" /\ find_call.filter = f =>
          /\ find_call.target = "AllExecutors"
          /\ find_call.out_cursor = NoCursor
          /\ Len(find_call.workers) <= find_call.count

\* two executors reported three running workers, a cursor was passed and
\* count was 2: two workers and no cursor came back
C29_Witness ==
    /\ find_call.op = "find_metadata"
    /\ find_call.filter = StatusFilter("Equal", "Running")
    /\ find_call.cursor = "cursor7"
    /\ find_call.ok
    /\ find_call.count = 2
    /\ find_call.workers = <<"w1", "w2">>
    /\ find_call.out_cursor = NoCursor

\* C30: a finished FileSystemBlobStorage call whose path (for the copies:
\* either path) resolves outside its namespace directory was rejected, and
\* no location outside the namespace directories of the call was accessed.
C30_OutsideNamespaceIsRejected ==
    fs_call.pc = "done" =>
       LET InNamespace(namespace, path) ==
               StartsWith(Resolve(PathOf(namespace, path), <<>>),
                          Root \o NamespaceDir(namespace))
           target == IF fs_call.op = "copy" THEN fs_call.namespace ELSE fs_call.target
           escapes ==
               \/ ~InNamespace(fs_call.namespace, fs_call.path)
               \/ /\ fs_call.op \in {"copy", "copy_dir_contents"}
                  /\ ~InNamespace(target, fs_call.to)
       IN  escapes => ~fs_call.ok /\ fs_call.accessed = {}

\* What the check does keep out: a checked operation given an absolute
\* path that does not begin with the root is rejected and accesses nothing.
AbsoluteOutsideRootIsRejected ==
    /\ fs_call.pc = "done"
    /\ fs_call.op \in CheckedOps \cup {"copy"}
    /\ fs_call.path.absolute
    /\ ~StartsWith(fs_call.path.comps, Root)
    => ~fs_call.ok /\ fs_call.accessed = {}

\* C31: a paging of scan_for_component that has finished did not panic and
\* produced the WorkerId of every worker of the component that has an oplog
\* stream exactly once, and of no other worker.
C31_ScanEnumeratesEachWorkerOnce ==
    scan_call.pc = "finished" =>
       /\ scan_call.out = "Ok"
       /\ \A w \in WorkerIds :
             Cardinality({i \in 1..Len(scan_call.worker_ids) : scan_call.worker_ids[i] = w})
                = IF w \in oplog_streams /\ w.component_id = scan_call.component_id
                     THEN 1 ELSE 0

\* The paging of the storage itself is not at fault: with the keys of the
\* form "<component>:<name>" a paging ends in a panic as soon as a page
\* holds a key, and with "worker:oplog:<component>:<name>" no key matches.
ScanNeverYieldsAWorker == scan_call.worker_ids = <<>>

\* C32: between operations the staging buffer of a handle holds at most
\* max_operations_before_commit entries, and every completed add leaves it
\* so; with max_operations_before_commit = 0 it is empty between operations.
C32_StagingIsBounded ==
    /\ [](\A h \in HandleIds :
            handles[h].live /\ handles[h].lock = NoTask =>
               /\ Len(handles[h].buffer) <= max_operations_before_commit
               /\ max_operations_before_commit = 0 => handles[h].buffer = <<>>)
    /\ [][\A h \in HandleIds :
             AddCompletes(h) => Len(handles'[h].buffer) <= max_operations_before_commit
       ]_vars

\* an add has returned leaving the buffer full: max_operations_before_commit
\* = 1 entry staged, nothing committed by it
C32_Witness ==
    /\ res.op = "add" /\ res.out = "ok"
    /\ AllIdle
    /\ max_operations_before_commit = 1
    /\ \E h \in HandleIds :
          /\ handles[h].live
          /\ Len(handles[h].buffer) = 1
          /\ handles[h].last_committed_idx = 1

\* C33: a finished fan-out whose responses are all successes of convertible
\* workers returned their workers concatenated in response order; one whose
\* responses include a failure, an empty response or an unconvertible
\* worker failed and returned no worker.
C33_FanOutIsAllOrNothing ==
    fanout_call.pc = "done" =>
       LET rs == fanout_call.responses
           good(i) == /\ rs[i].result = "Success"
                      /\ \A k \in 1..Len(rs[i].workers) : rs[i].workers[k] # "bad"
           before[i \in 1..Len(rs)] ==
               IF i = 1 THEN 0 ELSE before[i - 1] + Len(rs[i - 1].workers)
       IN  IF \A i \in 1..Len(rs) : good(i)
              THEN /\ fanout_call.ok
                   /\ Len(fanout_call.workers) = before[Len(rs)] + Len(rs[Len(rs)].workers)
                   /\ \A i \in 1..Len(rs) : \A k \in 1..Len(rs[i].workers) :
                         fanout_call.workers[before[i] + k] = rs[i].workers[k]
              ELSE ~fanout_call.ok /\ fanout_call.workers = <<>>

\* two executors answered <<w2>> and <<w1, w2>>: the result is <<w2, w1, w2>>
C33_Witness ==
    /\ fanout_call.pc = "done"
    /\ fanout_call.ok
    /\ fanout_call.responses = <<SuccessResponse(<<"w2">>), SuccessResponse(<<"w1", "w2">>)>>
    /\ fanout_call.workers = <<"w2", "w1", "w2">>

\* the first executor answered <<w1>> and the second nothing: the call failed
C33_WitnessFailure ==
    /\ fanout_call.pc = "done"
    /\ ~fanout_call.ok
    /\ fanout_call.responses = <<SuccessResponse(<<"w1">>), EmptyResponse>>

\* C34: the step of open that registers a newly constructed handle gives it
\* last_committed_idx and last_oplog_idx equal to the last index the stream
\* has at that moment, so its first commit writes at a free index.
C34_NewHandleStartsAtLastIndex ==
    [][\A t \in Tasks :
          pc[t] = "open_get_or_open" /\ oplogs = NoHandle /\ OpenGetOrOpen(t) =>
             /\ handles'[held'[t]].last_committed_idx = GetLastIndex(stream)
             /\ handles'[held'[t]].last_oplog_idx = GetLastIndex(stream)
             /\ ~StorageAppendFails(stream, NextAppendIndex(handles'[held'[t]]))
    ]_vars

\* C35: the drop of the last holder of a handle removes the registry slot
\* and the handle with whatever it had staged, and leaves the stream as it
\* was; the handle the owner opens next is new, has nothing staged, and its
\* current_oplog_index is the last index of the stream.
C35_DropDiscardsStaged ==
    [][\A t \in Tasks :
          /\ DropHandle(t) /\ Holders(held[t]) = {t} =>
                /\ stream' = stream
                /\ oplogs' = NoHandle
                /\ handles'[held[t]] = DeadHandle
                /\ LiveHandles' = {}
          /\ pc[t] = "open_get_or_open" /\ OpenGetOrOpen(t) /\ oplogs = NoHandle =>
                /\ handles'[held'[t]].buffer = <<>>
                /\ handles'[held'[t]].last_oplog_idx = GetLastIndex(stream)
                /\ handles'[held'[t]].last_committed_idx = GetLastIndex(stream)
    ]_vars

\* the owner, sole holder of the handle, has an entry staged beyond the two
\* committed ones and is free to drop the handle
C35_Witness ==
    \E t \in Tasks :
        /\ pc[t] = "idle"
        /\ held[t] # NoHandle
        /\ Holders(held[t]) = {t}
        /\ Len(handles[held[t]].buffer) = 1
        /\ handles[held[t]].last_committed_idx = 2
        /\ GetLastIndex(stream) = 2

\* C36: the steps of drop_prefix (truncation, length check, delete of the
\* emptied stream) leave the staging buffer, last_oplog_idx and
\* last_committed_idx of the handle as they were; every index present in the
\* stream is at most last_committed_idx, which never decreases, and every
\* append writes at last_committed_idx + 1: above every index ever dropped.
C36_DropPrefixKeepsHandleIndices ==
    /\ [](\A h \in HandleIds :
            handles[h].live =>
               \A i \in StorageIndices(stream) : i <= handles[h].last_committed_idx)
    /\ [][\A t \in Tasks :
             LET h == held[t] IN
             /\ \/ \E k \in 1..MaxIdx : DropPrefix(t, k)
                \/ DropPrefixLength(t)
                \/ DropPrefixDelete(t)
                => /\ handles'[h].buffer = handles[h].buffer
                   /\ handles'[h].last_oplog_idx = handles[h].last_oplog_idx
                   /\ handles'[h].last_committed_idx = handles[h].last_committed_idx
             /\ h # NoHandle =>
                   handles'[h].last_committed_idx >= handles[h].last_committed_idx
             /\ pc[t] \in AppendPcs /\ stream' # stream =>
                   /\ stream'.entries[handles[h].last_committed_idx + 1] # Absent
                   /\ \A i \in 1..MaxIdx :
                         i # handles[h].last_committed_idx + 1 =>
                            stream'.entries[i] = stream.entries[i]
       ]_vars

\* indices 1 and 2 were dropped and the emptied stream deleted; the next
\* commit through the same handle wrote at index 3
C36_Witness ==
    /\ AllIdle
    /\ res.op = "add" /\ res.out = "ok"
    /\ StorageIndices(stream) = {3}
    /\ \E h \in HandleIds : handles[h].live /\ handles[h].last_committed_idx = 3

\* C37: the step in which Worker::new fails after worker_service().add
\* (context creation, fuel, pre-instantiation, instantiation,
\* prepare_instance) removes nothing from the worker service, returns an
\* error instead of a Worker, and records exactly one create-worker failure.
C37_FailureAfterAddIsRecordedOnce ==
    [][worker_new.pc = "later" /\ worker_new'.pc = "done" =>
          /\ worker_service' = worker_service
          /\ worker_service # <<>>
          /\ worker_service[Len(worker_service)] = worker_new.metadata
          /\ worker_new'.out = "Err"
          /\ worker_new'.create_worker = worker_new.create_worker
          /\ worker_new'.create_worker_failure = worker_new.create_worker_failure + 1
    ]_vars

\* What does hold of such a failure: the metadata persisted before stays, no
\* Worker is returned, no success is recorded.
FailureAfterAddKeepsMetadata ==
    [][worker_new.pc = "later" /\ worker_new'.pc = "done" =>
          /\ worker_service' = worker_service
          /\ worker_service # <<>>
          /\ worker_service[Len(worker_service)] = worker_new.metadata
          /\ worker_new'.out = "Err"
          /\ worker_new'.create_worker = worker_new.create_worker
    ]_vars

\* No failure of Worker::new is ever recorded.
NoCreateWorkerFailureIsRecorded == worker_new.create_worker_failure = 0

\* C38: a get_or_create_pending that finds the worker built returns it
\* (Final), one that finds a construction pending returns its handle
\* (Pending), whatever args, env and version it supplies, and changes
\* neither the slot, the constructions nor the persisted metadata; no
\* get_or_create_pending ever returns WorkerCreationFailed.
C38_PendingDoesNotValidate ==
    /\ [](\A c \in Callers :
            callers[c].op = "get_or_create_pending" =>
               callers[c].out.tag \in {"Pending", "Final"})
    /\ [][\A c \in Callers :
             /\ callers[c].pc = "idle"
             /\ active_workers.state # "empty"
             /\ callers'[c].op = "get_or_create_pending"
             => /\ callers'[c].out =
                       IF active_workers.state = "cached"
                          THEN OutFinal(active_workers.build)
                          ELSE OutPending(active_workers.build)
                /\ active_workers' = active_workers
                /\ builds' = builds
                /\ worker_service' = worker_service
       ]_vars

\* the worker is cached with args1: a get_or_create with other values was
\* refused, and a get_or_create_pending got the worker
C38_Witness ==
    /\ active_workers = [state |-> "cached", build |-> 1]
    /\ builds[1].metadata.args = "args1"
    /\ \E c, k \in Callers :
          /\ callers[c].op = "get_or_create"
          /\ callers[c].out = OutErr("WorkerCreationFailed")
          /\ callers[k].op = "get_or_create_pending"
          /\ callers[k].out = OutFinal(1)

\* C39: a RecordedGrpcRequest still alive has made no observation; one whose
\* life is over has made exactly one: a success if it ended by succeed, a
\* failure of the error's kind if by fail, a failure labelled Drop if it was
\* dropped without either. Observations once made are never added to.
C39_OneObservationPerRequest ==
    /\ [](\A r \in 1..MaxRequests :
            LET request == grpc_requests[r] IN
            /\ request.state \in {"none", "live"} => request.observations = <<>>
            /\ request.state = "dropped" =>
                  request.observations =
                     <<CASE request.ended_by = "succeed" -> "success"
                         [] request.ended_by = "drop" -> "Drop"
                         [] OTHER -> request.ended_by>>)
    /\ [][\A r \in 1..MaxRequests :
             grpc_requests[r].state = "dropped" => grpc_requests'[r] = grpc_requests[r]
       ]_vars

\* three requests ended the three ways
C39_Witness ==
    /\ grpc_requests[1].state = "dropped" /\ grpc_requests[1].observations = <<"success">>
    /\ grpc_requests[2].state = "dropped" /\ grpc_requests[2].observations = <<"Unknown">>
    /\ grpc_requests[3].state = "dropped" /\ grpc_requests[3].observations = <<"Drop">>

\* C40: after any sequence of put_raw, delete, create_dir and delete_dir made
\* identically on both backends, the last call (a mutation, or a get_raw,
\* exists or list_dir) had the same outcome in InMemoryBlobStorage and in
\* FileSystemBlobStorage.
C40_BackendsAgree == backends.mem = backends.fs

====
